---- MODULE Spec2Model ----
(***************************************************************************)
(* rssgrid: the feed refresh engine (internal/feed Fetcher and Updater),   *)
(* the store operations it uses (internal/db Store) and the add-feed and   *)
(* delete-feed handlers of the server that share the store with it.        *)
(*                                                                         *)
(* Time is counted in whole seconds; the zero time.Time (and a NULL        *)
(* DATETIME column) is 0.  Strings that the code takes apart are tuples of *)
(* one-character strings; strings that it only compares or stores are      *)
(* TLA+ strings.  A NULL TEXT column is the value NULL.                    *)
(***************************************************************************)
EXTENDS Integers, Sequences, FiniteSets, TLC

\* ---------------------------------------------------------------- bounds
\* number of times the wall clock is observed to move
MaxClockAdvances == 1
\* largest rowid the feeds table hands out
MaxFeedId == 2

\* the store on its own: the rowids of the feeds table stop here, and no
\* subscription is made at a grid position beyond MaxGridPosition
MaxStoreFeedId == 3
MaxGridPosition == 2

\* ------------------------------------------------------ program constants
\* extractCacheInfo: time.Now().Add(1 * time.Hour)
DefaultCacheSeconds == 3600
StatusOK == 200
StatusNotModified == 304

NULL == "NULL"

\* the defaults of the user_preferences columns
DefaultPostsPerFeed == 10
DefaultColumns == 2

\* the feed URLs users subscribe to
Urls == {"https://ex.com/a.xml", "https://ex.com/b.xml"}
\* the one signed-in user of the refresh engine's specification
Users == {1}

\* ------------------------------------------------- strings (Go: strings)
RECURSIVE IndexByte(_, _, _)
\* position at or after i of the first c in s, 0 when there is none
IndexByte(s, c, i) ==
    IF i > Len(s) THEN 0
    ELSE IF s[i] = c THEN i
    ELSE IndexByte(s, c, i + 1)

RECURSIVE Split(_, _)
\* strings.Split(s, sep) for a one-character separator
Split(s, sep) ==
    LET i == IndexByte(s, sep, 1)
    IN  IF i = 0 THEN <<s>>
        ELSE <<SubSeq(s, 1, i - 1)>> \o Split(SubSeq(s, i + 1, Len(s)), sep)

IsSpace(c) == c \in {" ", "\t", "\n", "\r"}

RECURSIVE TrimLeft(_)
TrimLeft(s) ==
    IF Len(s) > 0 /\ IsSpace(s[1]) THEN TrimLeft(Tail(s)) ELSE s

RECURSIVE TrimRight(_)
TrimRight(s) ==
    IF Len(s) > 0 /\ IsSpace(s[Len(s)])
    THEN TrimRight(SubSeq(s, 1, Len(s) - 1)) ELSE s

\* strings.TrimSpace
TrimSpace(s) == TrimRight(TrimLeft(s))

\* strings.HasPrefix
HasPrefix(s, p) == Len(s) >= Len(p) /\ SubSeq(s, 1, Len(p)) = p

\* strings.TrimPrefix
TrimPrefix(s, p) == IF HasPrefix(s, p) THEN SubSeq(s, Len(p) + 1, Len(s)) ELSE s

Digits == <<"0", "1", "2", "3", "4", "5", "6", "7", "8", "9">>

DigitVal(c) == (CHOOSE i \in 1..10 : Digits[i] = c) - 1

IsDigit(c) == \E i \in 1..10 : Digits[i] = c

RECURSIVE DecVal(_, _)
DecVal(s, acc) ==
    IF Len(s) = 0 THEN acc ELSE DecVal(Tail(s), acc * 10 + DigitVal(s[1]))

\* strconv.Atoi: an optional sign followed by one or more decimal digits
Atoi(s) ==
    LET signed == Len(s) > 0 /\ s[1] \in {"+", "-"}
        body == IF signed THEN Tail(s) ELSE s
        wellFormed == Len(body) > 0 /\ \A i \in 1..Len(body) : IsDigit(body[i])
    IN  IF ~wellFormed THEN [err |-> TRUE, val |-> 0]
        ELSE [err |-> FALSE,
              val |-> IF signed /\ s[1] = "-" THEN 0 - DecVal(body, 0)
                      ELSE DecVal(body, 0)]

MaxAgePrefix == <<"m", "a", "x", "-", "a", "g", "e", "=">>

RECURSIVE parseMaxAgeParts(_)
\* the loop of parseMaxAge over the split parts
parseMaxAgeParts(parts) ==
    IF Len(parts) = 0 THEN 0
    ELSE LET part == TrimSpace(Head(parts))
             maxAgeStr == TrimPrefix(part, MaxAgePrefix)
             n == Atoi(maxAgeStr)
         IN  IF HasPrefix(part, MaxAgePrefix) /\ maxAgeStr # <<>> /\ ~n.err
             THEN n.val
             ELSE parseMaxAgeParts(Tail(parts))

\* Fetcher.parseMaxAge
parseMaxAge(cacheControl) == parseMaxAgeParts(Split(cacheControl, ","))

\* --------------------------------------------- integers in full width
\* a 64-bit word as its four 16-bit parts, the lowest first
Zero64 == <<0, 0, 0, 0>>

\* x * m + c for m and c below 2^15: the word modulo 2^64 and what is
\* carried out of it
MulAdd(x, m, c) ==
    LET v1 == x[1] * m + c
        v2 == x[2] * m + (v1 \div 65536)
        v3 == x[3] * m + (v2 \div 65536)
        v4 == x[4] * m + (v3 \div 65536)
    IN  [word |-> <<v1 % 65536, v2 % 65536, v3 % 65536, v4 % 65536>>,
         carry |-> v4 \div 65536]

RECURSIVE DecWord(_, _, _)
\* the value of a string of decimal digits as a word, and whether it is
\* 2^64 or more
DecWord(s, acc, over) ==
    IF Len(s) = 0 THEN [word |-> acc, over |-> over]
    ELSE LET r == MulAdd(acc, 10, DigitVal(s[1]))
         IN  DecWord(Tail(s), r.word, over \/ r.carry # 0)

\* the word is 2^(intSize - 1) or more
AtLeastHalf(x, intSize) ==
    IF intSize = 64 THEN x[4] >= 32768
    ELSE x[2] >= 32768 \/ x[3] # 0 \/ x[4] # 0

\* the word is 2^(intSize - 1) exactly
IsHalf(x, intSize) ==
    x = IF intSize = 64 THEN <<0, 0, 0, 32768>> ELSE <<0, 32768, 0, 0>>

\* strconv.Atoi with int of intSize bits: as Atoi, with the value as a sign
\* and a magnitude in full width, and with the error of a value out of the
\* range of int
AtoiSized(s, intSize) ==
    LET signed == Len(s) > 0 /\ s[1] \in {"+", "-"}
        body == IF signed THEN Tail(s) ELSE s
        wellFormed == Len(body) > 0 /\ \A i \in 1..Len(body) : IsDigit(body[i])
        neg == signed /\ s[1] = "-"
        d == DecWord(body, Zero64, FALSE)
        inRange == /\ ~d.over
                   /\ \/ ~AtLeastHalf(d.word, intSize)
                      \/ neg /\ IsHalf(d.word, intSize)
    IN  IF ~wellFormed \/ ~inRange
        THEN [err |-> TRUE, neg |-> FALSE, mag |-> Zero64]
        ELSE [err |-> FALSE, neg |-> neg /\ d.word # Zero64, mag |-> d.word]

RECURSIVE parseMaxAgePartsSized(_, _)
\* the loop of parseMaxAge over the split parts, with int of intSize bits
parseMaxAgePartsSized(parts, intSize) ==
    IF Len(parts) = 0 THEN [neg |-> FALSE, mag |-> Zero64]
    ELSE LET part == TrimSpace(Head(parts))
             maxAgeStr == TrimPrefix(part, MaxAgePrefix)
             n == AtoiSized(maxAgeStr, intSize)
         IN  IF HasPrefix(part, MaxAgePrefix) /\ maxAgeStr # <<>> /\ ~n.err
             THEN [neg |-> n.neg, mag |-> n.mag]
             ELSE parseMaxAgePartsSized(Tail(parts), intSize)

\* Fetcher.parseMaxAge with int of intSize bits
parseMaxAgeSized(cacheControl, intSize) ==
    parseMaxAgePartsSized(Split(cacheControl, ","), intSize)

\* time.Duration(maxAge) * time.Second for maxAge > 0: the product with
\* 1000000000 in the 64 bits of a Duration, taken as 1000 * 1000 * 1000
SecondsDuration(mag) ==
    LET k == MulAdd(mag, 1000, 0).word
        m == MulAdd(k, 1000, 0).word
    IN  MulAdd(m, 1000, 0).word

\* a Duration is negative: the sign bit of its word is set
NegativeDuration(d) == d[4] >= 32768

\* extractCacheInfo, the Cache-Control part: whether max-age is taken
\* (maxAge > 0), the Duration that is then added to time.Now(), and whether
\* the cacheUntil that results is before time.Now()
maxAgeCacheUntil(cacheControl, intSize) ==
    LET maxAge == parseMaxAgeSized(cacheControl, intSize)
        taken == cacheControl # << >> /\ ~maxAge.neg /\ maxAge.mag # Zero64
        d == SecondsDuration(maxAge.mag)
    IN  [taken |-> taken,
         maxAge |-> maxAge,
         duration |-> IF taken THEN d ELSE Zero64,
         beforeNow |-> taken /\ NegativeDuration(d)]

\* ------------------------------------------------------ HTTP responses
\* the Cache-Control texts the feed servers send ("" is << >>)
Str_maxage1 == <<"m", "a", "x", "-", "a", "g", "e", "=", "1">>
Str_maxage0 == <<"m", "a", "x", "-", "a", "g", "e", "=", "0">>
ServedCacheControl == {Str_maxage1, Str_maxage0, << >>}

\* pieces of Cache-Control texts
Str_public == <<"p", "u", "b", "l", "i", "c">>
Str_nocache == <<"n", "o", "-", "c", "a", "c", "h", "e">>
Str_invalid == <<"i", "n", "v", "a", "l", "i", "d">>
Str_sep == <<",", " ">>
MaxAgeOf(v) == MaxAgePrefix \o v

\* the Cache-Control texts parseMaxAge is called with on its own: those of
\* TestFetcher_ParseMaxAge, and texts with a directive that is empty, signed,
\* malformed, repeated, padded, in upper case or of another name
ParseMaxAgeInputs ==
    { MaxAgeOf(<<"3", "6", "0", "0">>),
      Str_public \o Str_sep \o MaxAgeOf(<<"1", "8", "0", "0">>),
      Str_nocache,
      MaxAgeOf(Str_invalid),
      << >>,
      MaxAgePrefix,
      Str_maxage0,
      Str_maxage1,
      MaxAgeOf(<<"-", "5">>),
      MaxAgeOf(<<"+", "5">>),
      MaxAgeOf(Str_invalid) \o Str_sep \o MaxAgeOf(<<"6", "0">>),
      MaxAgeOf(<<"5">>) \o <<",">> \o MaxAgeOf(<<"9">>),
      <<" ">> \o MaxAgeOf(<<"7">>) \o <<" ">>,
      MaxAgeOf(<<" ", "5">>),
      MaxAgeOf(<<"1", ".", "5">>),
      MaxAgeOf(<<"1", "2", "a">>),
      <<"M", "A", "X", "-", "A", "G", "E", "=", "5">>,
      <<"s", "-", "m", "a", "x", "a", "g", "e", "=", "5">>,
      Str_nocache \o Str_sep \o Str_public,
      Str_public \o <<",">> \o MaxAgeOf(<<"2">>) \o Str_sep \o Str_nocache }

CacheControlTexts == ServedCacheControl \cup ParseMaxAgeInputs

\* parseMaxAge of each of these texts, computed once
MaxAgeTable == [cc \in CacheControlTexts |-> parseMaxAge(cc)]

NoExpires == [set |-> FALSE, rfc1123 |-> FALSE, time |-> 0]

\* Expires headers extractCacheInfo is called with on its own: none, a date
\* in RFC1123 form (at time 1, at time 5), text of another form
ExpiresInputs ==
    { NoExpires,
      [set |-> TRUE, rfc1123 |-> TRUE, time |-> 1],
      [set |-> TRUE, rfc1123 |-> TRUE, time |-> 5],
      [set |-> TRUE, rfc1123 |-> FALSE, time |-> 0] }

\* header sets of a 200 response: ETag and Last-Modified are opaque strings
\* ("" when absent), Cache-Control is text, Expires is absent, or text that
\* time.Parse(time.RFC1123, _) accepts or rejects
H_validators ==
    [ETag |-> "\"abc123\"", LastModified |-> "Wed, 21 Oct 2015 07:28:00 GMT",
     CacheControl |-> Str_maxage1, Expires |-> NoExpires]
H_maxage0 ==
    [ETag |-> "", LastModified |-> "", CacheControl |-> Str_maxage0, Expires |-> NoExpires]
H_none ==
    [ETag |-> "", LastModified |-> "", CacheControl |-> <<>>, Expires |-> NoExpires]
H_etagOnly ==
    [ETag |-> "\"abc123\"", LastModified |-> "", CacheControl |-> Str_maxage1,
     Expires |-> NoExpires]
H_lastModifiedOnly ==
    [ETag |-> "", LastModified |-> "Wed, 21 Oct 2015 07:28:00 GMT",
     CacheControl |-> Str_maxage1, Expires |-> NoExpires]

\* the header sets extractCacheInfo is called with on its own
HeaderInputs ==
    { [ETag |-> v[1], LastModified |-> v[2], CacheControl |-> cc, Expires |-> x] :
        v \in {<<"", "">>, <<"\"abc123\"", "Wed, 21 Oct 2015 07:28:00 GMT">>},
        cc \in CacheControlTexts, x \in ExpiresInputs }

\* time.Parse(time.RFC1123, expires)
ParseRFC1123(expires) == [err |-> ~expires.rfc1123, time |-> expires.time]

\* time.Now().Add(time.Duration(n) * time.Second)
AddSeconds(t, n) == t + n

\* Fetcher.extractCacheInfo, with t the value of time.Now()
extractCacheInfo(headers, t) ==
    LET maxAge == MaxAgeTable[headers.CacheControl]
        fromCacheControl ==
            IF headers.CacheControl # <<>> /\ maxAge > 0
            THEN AddSeconds(t, maxAge)
            ELSE AddSeconds(t, DefaultCacheSeconds)
        parsedTime == ParseRFC1123(headers.Expires)
    IN  [etag |-> headers.ETag,
         lastModified |-> headers.LastModified,
         cacheUntil |-> IF headers.Expires.set /\ ~parsedTime.err
                        THEN parsedTime.time
                        ELSE fromCacheControl]

\* a variant of shouldSkipFetch that still skips at the instant the cache
\* runs out (!time.Now().After(CacheUntil))
shouldSkipFetchNonStrict(feed, t) == feed.CacheUntil # 0 /\ t <= feed.CacheUntil

\* Fetcher.shouldSkipFetch, with t the value of time.Now()
shouldSkipFetch(feed, t) == feed.CacheUntil # 0 /\ t < feed.CacheUntil

\* ------------------------------------------------------- feed documents
\* item bodies are sequences of HTML elements
SafeElements == {"p", "b", "a"}

\* bluemonday.UGCPolicy().Sanitize
Sanitize(content) == SelectSeq(content, LAMBDA e : e \in SafeElements)

\* what gofeed's parser makes of the documents the feed servers serve
\* (PublishedParsed and UpdatedParsed are 0 when nil)
DocA ==
    [Title |-> "Feed A",
     Items |-> << [GUID |-> "guid-1", Title |-> "one", Link |-> "https://x/1",
                   PublishedParsed |-> 1, UpdatedParsed |-> 0,
                   Content |-> <<"p", "script">>, Description |-> <<>>],
                  [GUID |-> "", Title |-> "two", Link |-> "https://x/y",
                   PublishedParsed |-> 0, UpdatedParsed |-> 1,
                   Content |-> <<>>, Description |-> <<"b">>] >>]
DocUntitled == [Title |-> "", Items |-> << >>]
DocB == [Title |-> "Feed B", Items |-> << >>]

\* a feed whose document changes: the item guid-c comes without a date at
\* first, and later with another title, link, date and content, followed by
\* a new item
DocC ==
    [Title |-> "Feed C",
     Items |-> << [GUID |-> "guid-c", Title |-> "old", Link |-> "https://x/c",
                   PublishedParsed |-> 0, UpdatedParsed |-> 0,
                   Content |-> <<"p">>, Description |-> <<>>] >>]
DocC2 ==
    [Title |-> "Feed C",
     Items |-> << [GUID |-> "guid-c", Title |-> "new", Link |-> "https://x/c2",
                   PublishedParsed |-> 5, UpdatedParsed |-> 0,
                   Content |-> <<"b">>, Description |-> <<>>],
                  [GUID |-> "guid-c2", Title |-> "next", Link |-> "https://x/n",
                   PublishedParsed |-> 5, UpdatedParsed |-> 0,
                   Content |-> <<"a">>, Description |-> <<>>] >>]

\* a variant of NormalizeItem that sanitizes the content, as the loop of the
\* Fetcher with a sanitizer field does
NormalizeItemSanitizing(item, t) ==
    [GUID |-> IF item.GUID = "" THEN item.Link ELSE item.GUID,
     Title |-> item.Title,
     Link |-> item.Link,
     PublishedAt |-> IF item.PublishedParsed # 0 THEN item.PublishedParsed
                     ELSE IF item.UpdatedParsed # 0 THEN item.UpdatedParsed
                     ELSE t,
     Content |-> Sanitize(IF item.Content = <<>> THEN item.Description
                          ELSE item.Content)]

\* a variant of NormalizeItem that keeps the GUID of the feed as it is
NormalizeItemKeepingGuid(item, t) ==
    [GUID |-> item.GUID,
     Title |-> item.Title,
     Link |-> item.Link,
     PublishedAt |-> IF item.PublishedParsed # 0 THEN item.PublishedParsed
                     ELSE IF item.UpdatedParsed # 0 THEN item.UpdatedParsed
                     ELSE t,
     Content |-> IF item.Content = <<>> THEN item.Description ELSE item.Content]

\* the per-item loop of fetchFeedWithCache, with t the value of time.Now()
NormalizeItem(item, t) ==
    [GUID |-> IF item.GUID = "" THEN item.Link ELSE item.GUID,
     Title |-> item.Title,
     Link |-> item.Link,
     PublishedAt |-> IF item.PublishedParsed # 0 THEN item.PublishedParsed
                     ELSE IF item.UpdatedParsed # 0 THEN item.UpdatedParsed
                     ELSE t,
     Content |-> IF item.Content = <<>> THEN item.Description ELSE item.Content]

\* the FeedContent fetchFeedWithCache builds from a parsed document
NormalizeFeed(doc, t) ==
    [Title |-> doc.Title,
     Items |-> [i \in 1..Len(doc.Items) |-> NormalizeItem(doc.Items[i], t)]]

Response(transportErr, status, parses, doc, headers) ==
    [transportErr |-> transportErr, status |-> status, parses |-> parses,
     doc |-> doc, headers |-> headers]

\* what the server of a feed URL answers a 200 with
Serves(url) ==
    IF url = "https://ex.com/a.xml"
    THEN {<<DocA, H_validators>>, <<DocA, H_maxage0>>, <<DocUntitled, H_validators>>}
    ELSE IF url = "https://ex.com/c.xml"
    THEN {<<DocC, H_validators>>, <<DocC2, H_validators>>,
          <<DocC, H_etagOnly>>, <<DocC, H_lastModifiedOnly>>}
    ELSE {<<DocB, H_none>>}

\* what the network and the server of a feed URL answer to a GET
Responses(url) ==
    { Response(TRUE, 0, FALSE, DocUntitled, H_none),
      Response(FALSE, 500, FALSE, DocUntitled, H_none),
      Response(FALSE, StatusNotModified, FALSE, DocUntitled, H_none),
      Response(FALSE, StatusOK, FALSE, DocUntitled, H_none) }
    \cup { Response(FALSE, StatusOK, TRUE, dh[1], dh[2]) : dh \in Serves(url) }

\* ------------------------------------------------------------- the store
VARIABLES
    now,         \* time.Now()
    advances,    \* how often the clock has been observed to move
    feeds,       \* table feeds: id -> row
    posts,       \* table posts: a set of rows, UNIQUE(feed_id, guid)
    user_feeds   \* table user_feeds: a set of rows, PRIMARY KEY(user_id, feed_id)

\* the db.Feed struct a query scans a feeds row into
FeedStruct(fs, id) ==
    [ID |-> id, URL |-> fs[id].url, Title |-> fs[id].title,
     LastFetchedAt |-> fs[id].last_fetched_at, ETag |-> fs[id].etag,
     LastModified |-> fs[id].last_modified, CacheUntil |-> fs[id].cache_until]

NoFeed ==
    [ID |-> 0, URL |-> "", Title |-> "", LastFetchedAt |-> 0, ETag |-> "",
     LastModified |-> "", CacheUntil |-> 0]

\* Store.GetFeedByURL; dbOk is FALSE when the database call fails.  The
\* title column is scanned into a Go string, which fails on NULL.
GetFeedByURL(fs, url, dbOk) ==
    LET ids == {id \in DOMAIN fs : fs[id].url = url}
    IN  IF ~dbOk THEN [err |-> TRUE, found |-> FALSE, feed |-> NoFeed]
        ELSE IF ids = {} THEN [err |-> FALSE, found |-> FALSE, feed |-> NoFeed]
        ELSE LET id == CHOOSE i \in ids : TRUE
             IN  IF fs[id].title = NULL
                 THEN [err |-> TRUE, found |-> FALSE, feed |-> NoFeed]
                 ELSE [err |-> FALSE, found |-> TRUE, feed |-> FeedStruct(fs, id)]

RECURSIVE RowsInIdOrder(_, _)
RowsInIdOrder(fs, ids) ==
    IF ids = {} THEN << >>
    ELSE LET id == CHOOSE i \in ids : \A j \in ids : i <= j
         IN  <<FeedStruct(fs, id)>> \o RowsInIdOrder(fs, ids \ {id})

\* Store.GetAllFeeds; the title column is scanned into a Go string, which
\* fails on NULL
GetAllFeeds(fs, dbOk) ==
    IF ~dbOk \/ \E id \in DOMAIN fs : fs[id].title = NULL
    THEN [err |-> TRUE, feeds |-> << >>]
    ELSE [err |-> FALSE, feeds |-> RowsInIdOrder(fs, DOMAIN fs)]

\* Store.UpdateFeedTitle
UpdateFeedTitle(fs, feedId, title, dbOk) ==
    IF dbOk /\ feedId \in DOMAIN fs
    THEN [fs EXCEPT ![feedId].title = title]
    ELSE fs

\* Store.UpdateFeedLastFetched
UpdateFeedLastFetched(fs, feedId, timestamp, dbOk) ==
    IF dbOk /\ feedId \in DOMAIN fs
    THEN [fs EXCEPT ![feedId].last_fetched_at = timestamp]
    ELSE fs

\* a variant of UpdateFeedCacheInfo that keeps a stored token when the new
\* one is empty (SET etag = COALESCE(NULLIF(?, ''), etag), ...)
UpdateFeedCacheInfoKeeping(fs, feedId, etag, lastModified, cacheUntil, dbOk) ==
    IF dbOk /\ feedId \in DOMAIN fs
    THEN [fs EXCEPT ![feedId].etag = IF etag = "" THEN @ ELSE etag,
                    ![feedId].last_modified = IF lastModified = "" THEN @ ELSE lastModified,
                    ![feedId].cache_until = cacheUntil]
    ELSE fs

\* Store.UpdateFeedCacheInfo
UpdateFeedCacheInfo(fs, feedId, etag, lastModified, cacheUntil, dbOk) ==
    IF dbOk /\ feedId \in DOMAIN fs
    THEN [fs EXCEPT ![feedId].etag = etag,
                    ![feedId].last_modified = lastModified,
                    ![feedId].cache_until = cacheUntil]
    ELSE fs

\* the next rowid of an INTEGER PRIMARY KEY table
NextRowId(ids) == IF ids = {} THEN 1 ELSE (CHOOSE i \in ids : \A j \in ids : j <= i) + 1

\* a variant of AddPost on a posts table without UNIQUE(feed_id, guid): a
\* plain INSERT
AddPostNoIgnore(ps, fs, feedId, item, dbOk) ==
    IF ~dbOk \/ feedId \notin DOMAIN fs
    THEN [err |-> TRUE, posts |-> ps]
    ELSE [err |-> FALSE,
          posts |-> ps \cup {[id |-> NextRowId({p.id : p \in ps}),
                              feed_id |-> feedId, guid |-> item.GUID,
                              title |-> item.Title, link |-> item.Link,
                              published_at |-> item.PublishedAt,
                              content |-> Sanitize(item.Content)]}]

\* a variant of AddPost whose statement is INSERT OR REPLACE: the row that
\* is there for (feed_id, guid) is deleted and the new one inserted
AddPostReplace(ps, fs, feedId, item, dbOk) ==
    LET row == [id |-> NextRowId({p.id : p \in ps}),
                feed_id |-> feedId, guid |-> item.GUID, title |-> item.Title,
                link |-> item.Link, published_at |-> item.PublishedAt,
                content |-> Sanitize(item.Content)]
    IN  IF ~dbOk \/ feedId \notin DOMAIN fs
        THEN [err |-> TRUE, posts |-> ps]
        ELSE [err |-> FALSE,
              posts |-> {p \in ps : ~(p.feed_id = feedId /\ p.guid = item.GUID)}
                        \cup {row}]

\* a variant of AddPost that stores the content as it is handed in
AddPostRaw(ps, fs, feedId, item, dbOk) ==
    LET row == [id |-> NextRowId({p.id : p \in ps}),
                feed_id |-> feedId, guid |-> item.GUID, title |-> item.Title,
                link |-> item.Link, published_at |-> item.PublishedAt,
                content |-> item.Content]
    IN  IF ~dbOk \/ feedId \notin DOMAIN fs
        THEN [err |-> TRUE, posts |-> ps]
        ELSE IF \E p \in ps : p.feed_id = feedId /\ p.guid = item.GUID
        THEN [err |-> FALSE, posts |-> ps]
        ELSE [err |-> FALSE, posts |-> ps \cup {row}]

\* Store.AddPost: sanitize, then INSERT OR IGNORE.  The schema sets PRAGMA
\* foreign_keys = ON: the statement fails when the feed row is gone.
AddPost(ps, fs, feedId, item, dbOk) ==
    LET sanitizedContent == Sanitize(item.Content)
        row == [id |-> NextRowId({p.id : p \in ps}),
                feed_id |-> feedId, guid |-> item.GUID, title |-> item.Title,
                link |-> item.Link, published_at |-> item.PublishedAt,
                content |-> sanitizedContent]
    IN  IF ~dbOk \/ feedId \notin DOMAIN fs
        THEN [err |-> TRUE, posts |-> ps]
        ELSE IF \E p \in ps : p.feed_id = feedId /\ p.guid = item.GUID
        THEN [err |-> FALSE, posts |-> ps]
        ELSE [err |-> FALSE, posts |-> ps \cup {row}]

NewFeedRow(url) ==
    [url |-> url, title |-> NULL, last_fetched_at |-> 0, etag |-> "",
     last_modified |-> "", cache_until |-> 0]

\* a variant of AddFeedForUser whose INSERT replaces the feeds row of a URL
\* that is there already (INSERT OR REPLACE): the row starts afresh
AddFeedForUserReplace(fs, ufs, userId, url, dbOk) ==
    LET ids == {id \in DOMAIN fs : fs[id].url = url}
        feedId == IF ids = {} THEN NextRowId(DOMAIN fs) ELSE CHOOSE i \in ids : TRUE
        fs2 == [id \in DOMAIN fs \cup {feedId} |->
                   IF id = feedId THEN NewFeedRow(url) ELSE fs[id]]
        mine == {uf \in ufs : uf.user_id = userId}
        ufs2 == IF \E uf \in mine : uf.feed_id = feedId
                THEN ufs
                ELSE ufs \cup {[user_id |-> userId, feed_id |-> feedId,
                                grid_position |-> Cardinality(mine)]}
    IN  IF ~dbOk
        THEN [err |-> TRUE, feedId |-> 0, feeds |-> fs, user_feeds |-> ufs]
        ELSE [err |-> FALSE, feedId |-> feedId, feeds |-> fs2, user_feeds |-> ufs2]

\* a variant of AddFeedForUser that inserts the feeds row as Store.AddFeed
\* does, with a plain INSERT: the UNIQUE constraint on url makes the call
\* fail for a URL that has a row
AddFeedForUserPlainInsert(fs, ufs, userId, url, dbOk) ==
    LET feedId == NextRowId(DOMAIN fs)
        mine == {uf \in ufs : uf.user_id = userId}
        nextPosition ==
            IF mine = {} THEN 0
            ELSE (CHOOSE p \in {uf.grid_position : uf \in mine} :
                    \A uf \in mine : uf.grid_position <= p) + 1
    IN  IF ~dbOk \/ \E id \in DOMAIN fs : fs[id].url = url
        THEN [err |-> TRUE, feedId |-> 0, feeds |-> fs, user_feeds |-> ufs]
        ELSE [err |-> FALSE, feedId |-> feedId,
              feeds |-> [id \in DOMAIN fs \cup {feedId} |->
                           IF id = feedId THEN NewFeedRow(url) ELSE fs[id]],
              user_feeds |-> ufs \cup {[user_id |-> userId, feed_id |-> feedId,
                                        grid_position |-> nextPosition]}]

\* a variant of AddFeedForUser that places a new subscription at the number
\* of feeds the user has (SELECT COUNT(*)) instead of MAX(grid_position) + 1
AddFeedForUserCounting(fs, ufs, userId, url, dbOk) ==
    LET ids == {id \in DOMAIN fs : fs[id].url = url}
        feedId == IF ids = {} THEN NextRowId(DOMAIN fs) ELSE CHOOSE i \in ids : TRUE
        fs2 == IF ids = {}
               THEN [id \in DOMAIN fs \cup {feedId} |->
                        IF id = feedId THEN NewFeedRow(url) ELSE fs[id]]
               ELSE fs
        mine == {uf \in ufs : uf.user_id = userId}
        ufs2 == IF \E uf \in mine : uf.feed_id = feedId
                THEN ufs
                ELSE ufs \cup {[user_id |-> userId, feed_id |-> feedId,
                                grid_position |-> Cardinality(mine)]}
    IN  IF ~dbOk
        THEN [err |-> TRUE, feedId |-> 0, feeds |-> fs, user_feeds |-> ufs]
        ELSE [err |-> FALSE, feedId |-> feedId, feeds |-> fs2, user_feeds |-> ufs2]

\* Store.AddFeedForUser: one transaction
AddFeedForUser(fs, ufs, userId, url, dbOk) ==
    LET ids == {id \in DOMAIN fs : fs[id].url = url}
        feedId == IF ids = {} THEN NextRowId(DOMAIN fs) ELSE CHOOSE i \in ids : TRUE
        fs2 == IF ids = {}
               THEN [id \in DOMAIN fs \cup {feedId} |->
                        IF id = feedId THEN NewFeedRow(url) ELSE fs[id]]
               ELSE fs
        mine == {uf \in ufs : uf.user_id = userId}
        nextPosition ==
            IF mine = {} THEN 0
            ELSE (CHOOSE p \in {uf.grid_position : uf \in mine} :
                    \A uf \in mine : uf.grid_position <= p) + 1
        ufs2 == IF \E uf \in mine : uf.feed_id = feedId
                THEN ufs
                ELSE ufs \cup {[user_id |-> userId, feed_id |-> feedId,
                                grid_position |-> nextPosition]}
    IN  IF ~dbOk
        THEN [err |-> TRUE, feedId |-> 0, feeds |-> fs, user_feeds |-> ufs]
        ELSE [err |-> FALSE, feedId |-> feedId, feeds |-> fs2, user_feeds |-> ufs2]

\* Store.DeleteFeed; the rows that reference the feed go with it (ON DELETE
\* CASCADE)
DeleteFeed(fs, ps, ufs, feedId, dbOk) ==
    IF ~dbOk \/ feedId \notin DOMAIN fs
    THEN [feeds |-> fs, posts |-> ps, user_feeds |-> ufs]
    ELSE [feeds |-> [id \in DOMAIN fs \ {feedId} |-> fs[id]],
          posts |-> {p \in ps : p.feed_id # feedId},
          user_feeds |-> {uf \in ufs : uf.feed_id # feedId}]

\* the user_post_states rows left when the posts are ps: a row goes with the
\* post it references (post_id REFERENCES posts(id) ON DELETE CASCADE)
PostStatesOf(ups, ps) == {s \in ups : \E p \in ps : p.id = s.post_id}

\* INSERT INTO user_post_states (user_id, post_id, seen) VALUES (userId,
\* postId, 1) ON CONFLICT(user_id, post_id) DO UPDATE SET seen = 1, for every
\* postId of ids
UpsertSeen(ups, userId, ids) ==
    {s \in ups : ~(s.user_id = userId /\ s.post_id \in ids)}
        \cup {[user_id |-> userId, post_id |-> id, seen |-> 1] : id \in ids}

\* Store.MarkPostAsSeen; a postId that is no post's id fails the foreign key
MarkPostAsSeen(ups, ps, userId, postId, dbOk) ==
    IF ~dbOk \/ ~\E p \in ps : p.id = postId
    THEN [err |-> TRUE, user_post_states |-> ups]
    ELSE [err |-> FALSE, user_post_states |-> UpsertSeen(ups, userId, {postId})]

\* Store.MarkAllFeedPostsAsSeen: the upsert for every post of the feed
MarkAllFeedPostsAsSeen(ups, ps, userId, feedId, dbOk) ==
    IF ~dbOk
    THEN [err |-> TRUE, user_post_states |-> ups]
    ELSE [err |-> FALSE,
          user_post_states |->
              UpsertSeen(ups, userId, {p.id : p \in {q \in ps : q.feed_id = feedId}})]

\* the user_feeds rows of a user
FeedsOfUser(ufs, userID) == {uf \in ufs : uf.user_id = userID}

\* UPDATE user_feeds SET grid_position = position WHERE user_id = userID AND
\* feed_id = feedId
SetGridPosition(ufs, userID, feedId, position) ==
    {IF uf.user_id = userID /\ uf.feed_id = feedId
     THEN [uf EXCEPT !.grid_position = position] ELSE uf : uf \in ufs}

\* the transaction of MoveFeedDown and MoveFeedUp from the second SELECT
\* on, with others the rows the SELECT chooses from and other the row it
\* returns when there is one
SwapWith(ufs, userID, i, currentPosition, others, other, dbOk) ==
    IF others = {} \/ ~dbOk
    THEN [err |-> TRUE, user_feeds |-> ufs]
    ELSE [err |-> FALSE,
          user_feeds |-> SetGridPosition(
                             SetGridPosition(ufs, userID, i, other.grid_position),
                             userID, other.feed_id, currentPosition)]

\* a variant of MoveFeedDown that updates the position of the feed and not
\* that of the feed below it
MoveFeedDownHalf(ufs, userID, i, dbOk) ==
    LET cur == {uf \in FeedsOfUser(ufs, userID) : uf.feed_id = i}
        currentPosition == (CHOOSE uf \in cur : TRUE).grid_position
        below == {uf \in FeedsOfUser(ufs, userID) : uf.grid_position > currentPosition}
        next == CHOOSE uf \in below :
                    \A w \in below : uf.grid_position <= w.grid_position
    IN  IF cur = {} \/ below = {} \/ ~dbOk
        THEN [err |-> TRUE, user_feeds |-> ufs]
        ELSE [err |-> FALSE,
              user_feeds |-> SetGridPosition(ufs, userID, i, next.grid_position)]

\* Store.MoveFeedDown: one transaction; dbOk is FALSE when a statement of it
\* fails, and the transaction is rolled back
MoveFeedDown(ufs, userID, i, dbOk) ==
    LET cur == {uf \in FeedsOfUser(ufs, userID) : uf.feed_id = i}
        currentPosition == (CHOOSE uf \in cur : TRUE).grid_position
        below == {uf \in FeedsOfUser(ufs, userID) : uf.grid_position > currentPosition}
        next == CHOOSE uf \in below :
                    \A w \in below : uf.grid_position <= w.grid_position
    IN  IF cur = {}
        THEN [err |-> TRUE, user_feeds |-> ufs]
        ELSE SwapWith(ufs, userID, i, currentPosition, below, next, dbOk)

\* a variant of MoveFeedUp that updates the position of the feed and not
\* that of the feed above it
MoveFeedUpHalf(ufs, userID, i, dbOk) ==
    LET cur == {uf \in FeedsOfUser(ufs, userID) : uf.feed_id = i}
        currentPosition == (CHOOSE uf \in cur : TRUE).grid_position
        above == {uf \in FeedsOfUser(ufs, userID) : uf.grid_position < currentPosition}
        prev == CHOOSE uf \in above :
                    \A w \in above : uf.grid_position >= w.grid_position
    IN  IF cur = {} \/ above = {} \/ ~dbOk
        THEN [err |-> TRUE, user_feeds |-> ufs]
        ELSE [err |-> FALSE,
              user_feeds |-> SetGridPosition(ufs, userID, i, prev.grid_position)]

\* Store.MoveFeedUp
MoveFeedUp(ufs, userID, i, dbOk) ==
    LET cur == {uf \in FeedsOfUser(ufs, userID) : uf.feed_id = i}
        currentPosition == (CHOOSE uf \in cur : TRUE).grid_position
        above == {uf \in FeedsOfUser(ufs, userID) : uf.grid_position < currentPosition}
        prev == CHOOSE uf \in above :
                    \A w \in above : uf.grid_position >= w.grid_position
    IN  IF cur = {}
        THEN [err |-> TRUE, user_feeds |-> ufs]
        ELSE SwapWith(ufs, userID, i, currentPosition, above, prev, dbOk)

\* a variant of GetUserPostsPerFeed that returns the value of any stored
\* row when the user has none
GetUserPostsPerFeedAnyRow(prefs, userId, dbOk) ==
    IF ~dbOk THEN [err |-> TRUE, val |-> 0]
    ELSE IF userId \in DOMAIN prefs
    THEN [err |-> FALSE, val |-> prefs[userId].posts_per_feed]
    ELSE IF DOMAIN prefs # {}
    THEN [err |-> FALSE, val |-> prefs[CHOOSE u \in DOMAIN prefs : TRUE].posts_per_feed]
    ELSE [err |-> FALSE, val |-> DefaultPostsPerFeed]

\* Store.GetUserPostsPerFeed
GetUserPostsPerFeed(prefs, userId, dbOk) ==
    IF ~dbOk THEN [err |-> TRUE, val |-> 0]
    ELSE IF userId \in DOMAIN prefs
    THEN [err |-> FALSE, val |-> prefs[userId].posts_per_feed]
    ELSE [err |-> FALSE, val |-> DefaultPostsPerFeed]

\* Store.SetUserPostsPerFeed: INSERT ... ON CONFLICT(user_id) DO UPDATE SET
\* posts_per_feed; a new row gets the default of the columns column
SetUserPostsPerFeed(prefs, userId, postsPerFeed, dbOk) ==
    IF ~dbOk THEN prefs
    ELSE [u \in DOMAIN prefs \cup {userId} |->
            IF u # userId THEN prefs[u]
            ELSE IF userId \in DOMAIN prefs
            THEN [prefs[u] EXCEPT !.posts_per_feed = postsPerFeed]
            ELSE [posts_per_feed |-> postsPerFeed, columns |-> DefaultColumns]]

\* Store.SetUserColumns: a new row gets the default of posts_per_feed
SetUserColumns(prefs, userId, columns, dbOk) ==
    IF ~dbOk THEN prefs
    ELSE [u \in DOMAIN prefs \cup {userId} |->
            IF u # userId THEN prefs[u]
            ELSE IF userId \in DOMAIN prefs
            THEN [prefs[u] EXCEPT !.columns = columns]
            ELSE [posts_per_feed |-> DefaultPostsPerFeed, columns |-> columns]]

\* ----------------------------------------------------------- the fetcher
NoRequest == [url |-> "", IfNoneMatch |-> "", IfModifiedSince |-> ""]
NoContent == [Title |-> "", Items |-> << >>]
NoCacheInfo == [etag |-> "", lastModified |-> "", cacheUntil |-> 0]

\* a request that carries If-Modified-Since only together with If-None-Match
BuildRequestETagFirst(url, r) ==
    [url |-> url,
     IfNoneMatch |-> IF r.found /\ r.feed.ETag # "" THEN r.feed.ETag ELSE "",
     IfModifiedSince |->
        IF r.found /\ r.feed.ETag # "" THEN r.feed.LastModified ELSE ""]

\* the GET request of fetchFeedWithCache: the validators are attached when
\* the feed row is known and holds them ("" is a header that is not set)
BuildRequest(url, r) ==
    [url |-> url,
     IfNoneMatch |-> IF r.found /\ r.feed.ETag # "" THEN r.feed.ETag ELSE "",
     IfModifiedSince |->
        IF r.found /\ r.feed.LastModified # "" THEN r.feed.LastModified ELSE ""]

\* fetchFeedWithCache up to client.Do: the cache check and the request
fetchStart(fs, url, t, dbOk) ==
    LET r == GetFeedByURL(fs, url, dbOk)
    IN  IF r.err THEN [kind |-> "error", req |-> NoRequest]
        ELSE IF r.found /\ shouldSkipFetch(r.feed, t)
        THEN [kind |-> "skip", req |-> NoRequest]
        ELSE [kind |-> "get", req |-> BuildRequest(url, r)]

\* what the network did, as the claims name it
NetClass(resp) ==
    IF resp.transportErr THEN "transport"
    ELSE IF resp.status = StatusNotModified THEN "304"
    ELSE IF resp.status # StatusOK THEN "status"
    ELSE IF ~resp.parses THEN "parse"
    ELSE "200"

\* what fetchFeedWithCache returns: an error (kind "error"), or a
\* fetchResult whose content is nil (kind "nil") or not (kind "content")
FetchResult(kind, content, shouldCache, cacheInfo) ==
    [kind |-> kind, content |-> content, shouldCache |-> shouldCache,
     cacheInfo |-> cacheInfo]

\* a variant of fetchResult that takes the cache info of a 304 response as
\* well (shouldCache is set in the not-modified branch)
fetchResultCaches304(resp, t) ==
    IF resp.transportErr
    THEN FetchResult("error", NoContent, FALSE, NoCacheInfo)
    ELSE IF resp.status = StatusNotModified
    THEN FetchResult("nil", NoContent, TRUE, extractCacheInfo(resp.headers, t))
    ELSE IF resp.status # StatusOK
    THEN FetchResult("error", NoContent, FALSE, NoCacheInfo)
    ELSE IF ~resp.parses
    THEN FetchResult("error", NoContent, FALSE, NoCacheInfo)
    ELSE FetchResult("content", NormalizeFeed(resp.doc, t), TRUE,
                     extractCacheInfo(resp.headers, t))

\* a variant of fetchResult that takes a body the parser rejects for a feed
\* without items (the error of parser.Parse is dropped)
fetchResultParseEmpty(resp, t) ==
    IF resp.transportErr
    THEN FetchResult("error", NoContent, FALSE, NoCacheInfo)
    ELSE IF resp.status = StatusNotModified
    THEN FetchResult("nil", NoContent, FALSE, NoCacheInfo)
    ELSE IF resp.status # StatusOK
    THEN FetchResult("error", NoContent, FALSE, NoCacheInfo)
    ELSE IF ~resp.parses
    THEN FetchResult("content", NoContent, TRUE, extractCacheInfo(resp.headers, t))
    ELSE FetchResult("content", NormalizeFeed(resp.doc, t), TRUE,
                     extractCacheInfo(resp.headers, t))

\* fetchFeedWithCache from client.Do on, with t the value of time.Now()
fetchResult(resp, t) ==
    IF resp.transportErr
    THEN FetchResult("error", NoContent, FALSE, NoCacheInfo)
    ELSE IF resp.status = StatusNotModified
    THEN FetchResult("nil", NoContent, FALSE, NoCacheInfo)
    ELSE IF resp.status # StatusOK
    THEN FetchResult("error", NoContent, FALSE, NoCacheInfo)
    ELSE IF ~resp.parses
    THEN FetchResult("error", NoContent, FALSE, NoCacheInfo)
    ELSE FetchResult("content", NormalizeFeed(resp.doc, t), TRUE,
                     extractCacheInfo(resp.headers, t))

\* FetchFeed after fetchFeedWithCache returned r without an error: when
\* r.shouldCache, look the feed up again and store the cache info; errors
\* are logged, not returned
storeCacheInfo(fs, url, r, dbOkGet, dbOkUpdate) ==
    LET g == GetFeedByURL(fs, url, dbOkGet)
    IN  IF r.shouldCache /\ ~g.err /\ g.found
        THEN UpdateFeedCacheInfo(fs, g.feed.ID, r.cacheInfo.etag,
                                 r.cacheInfo.lastModified, r.cacheInfo.cacheUntil,
                                 dbOkUpdate)
        ELSE fs

RECURSIVE AddPosts(_, _, _, _, _, _)
\* the loops over content.Items of updateFeeds and handleAddFeed, from item
\* i on: the AddPost calls in failed fail, and the loop goes on after them
AddPosts(ps, fs, feedId, items, i, failed) ==
    IF i > Len(items) THEN ps
    ELSE AddPosts(AddPost(ps, fs, feedId, items[i], i \notin failed).posts,
                  fs, feedId, items, i + 1, failed)

\* updateFeeds: the test that guards UpdateFeedTitle
TitleChanged(contentTitle, feedTitle) == contentTitle # feedTitle

\* updateFeeds: the loop body after FetchFeed returned content for feed:
\* the title, the posts, the last-fetched timestamp.  Errors of the store
\* are logged and the body goes on.
ingest(fs, ps, feed, c, t, dbOkTitle, failed, dbOkStamp) ==
    LET titled == IF TitleChanged(c.Title, feed.Title)
                  THEN UpdateFeedTitle(fs, feed.ID, c.Title, dbOkTitle)
                  ELSE fs
    IN  [feeds |-> UpdateFeedLastFetched(titled, feed.ID, t, dbOkStamp),
         posts |-> AddPosts(ps, titled, feed.ID, c.Items, 1, failed)]

\* handleAddFeed from AddFeedForUser on, for content that is not nil
subscribe(fs, ps, ufs, userId, url, c, dbOkAdd, dbOkTitle, failed) ==
    LET a == AddFeedForUser(fs, ufs, userId, url, dbOkAdd)
        titled == IF c.Title # ""
                  THEN UpdateFeedTitle(a.feeds, a.feedId, c.Title, dbOkTitle)
                  ELSE a.feeds
    IN  IF a.err
        THEN [feeds |-> fs, posts |-> ps, user_feeds |-> ufs]
        ELSE [feeds |-> titled,
              posts |-> AddPosts(ps, titled, a.feedId, c.Items, 1, failed),
              user_feeds |-> a.user_feeds]

\* handleAddFeed from AddFeedForUser on, for content == nil: content.Title
\* dereferences nil and the handler panics after the subscription was
\* committed
subscribeNil(fs, ps, ufs, userId, url, dbOkAdd) ==
    LET a == AddFeedForUser(fs, ufs, userId, url, dbOkAdd)
    IN  [feeds |-> a.feeds, posts |-> ps, user_feeds |-> a.user_feeds,
         ended |-> IF a.err THEN "nil" ELSE "panic"]

\* ----------------------------------------- the updater and the handlers
VARIABLES
    upc,        \* where the updater goroutine is
    batch,      \* updateFeeds: feeds, the list GetAllFeeds returned
    idx,        \* updateFeeds: the position of the range loop in feeds
    req,        \* the updater's GET request in flight
    last,       \* the step just taken ended an iteration of the range loop: how
    ret,        \* the step just taken ended updateFeeds: what it returned
    listErr,    \* the step just taken called GetAllFeeds: whether it failed
    hpc,        \* where the add-feed request is
    huser,      \* handleAddFeed: userId
    hreq,       \* the handler's GET request in flight
    hlast,      \* the step just taken ended an add-feed request: with an
                \* error of the fetch, with content, with nil content before
                \* content is used, or in the panic of using nil content
    okUntil,    \* per watched URL: the cache-valid-until extracted from the
                \* latest 200 response for it, -1 when there was none
    ctxDone,    \* the context given to Start is cancelled
    ticker,     \* u.ticker: armed, a tick waits in ticker.C, or stopped
    exited,     \* the goroutine of Start has returned
    stopCall,   \* a call of Stop(): not made, sending on u.done, returned
    signalAt,   \* how many feeds of the batch that runs (or ran last) had been
                \* started when the first stop signal was given, if that was
                \* during this batch; -1 otherwise
    fetched,    \* updateFeeds: what FetchFeed returned to the loop body that
                \* has not gone on yet
    seen,       \* what a reader of the store read last
    arg,        \* the argument of a function called on its own
    res,        \* what that call returned
    user_preferences,   \* table user_preferences: user_id -> row
    user_post_states    \* table user_post_states: rows (user_id, post_id, seen)

vars == <<now, advances, feeds, posts, user_feeds, upc, batch, idx, req,
          last, ret, listErr, hpc, huser, hreq, hlast, okUntil,
          ctxDone, ticker, exited, stopCall, signalAt, fetched, seen, arg, res,
          user_preferences, user_post_states>>

clockVars == <<now, advances>>
storeVars == <<feeds, posts, user_feeds>>
updaterVars == <<upc, batch, idx, req>>
stepVars == <<last, ret, listErr, hlast>>
handlerVars == <<hpc, huser, hreq>>
schedVars == <<ctxDone, ticker, exited, stopCall, signalAt>>
pipeVars == <<fetched, seen>>
callVars == <<arg, res>>
prefVars == <<user_preferences, user_post_states>>

\* how an iteration ended: what it came to (result), what the network had
\* answered (net), whether every store call of the iteration succeeded on
\* a feed row that was there (clean), and the GUIDs of the items of the
\* content FetchFeed returned (guids)
Outcome(result, net, clean, guids) ==
    [result |-> result, net |-> net, clean |-> clean, guids |-> guids]

NoOutcome == Outcome("none", "none", TRUE, {})

\* FetchFeed has returned nothing that waits for the loop body
NoFetched == [kind |-> "none"]

\* no function: none is to be called on its own, none has returned
NoCall == [fn |-> "none"]

\* the GUIDs of the items of a FeedContent
Guids(c) == {c.Items[i].GUID : i \in 1..Len(c.Items)}

\* nothing is under way: the clock reads 1 (0 is the zero time), the updater
\* waits in its select, no request is being handled
Idle ==
    /\ now = 1
    /\ advances = 0
    /\ upc = "idle"
    /\ batch = << >>
    /\ idx = 0
    /\ req = NoRequest
    /\ last = NoOutcome
    /\ ret = "none"
    /\ listErr = FALSE
    /\ hpc = "none"
    /\ huser = 0
    /\ hreq = NoRequest
    /\ hlast = "none"
    /\ ctxDone = FALSE
    /\ ticker = "armed"
    /\ exited = FALSE
    /\ stopCall = "none"
    /\ signalAt = -1
    /\ fetched = NoFetched
    /\ seen = NoFeed
    /\ user_preferences = << >>
    /\ user_post_states = {}

\* no function is called on its own
NoCalls == arg = NoCall /\ res = NoCall

\* the service starts on an empty database
Start ==
    /\ Idle /\ NoCalls
    /\ feeds = << >>
    /\ posts = {}
    /\ user_feeds = {}

Init == Start /\ okUntil = << >>

\* the same start, with the 200 responses for a feed URL kept track of
InitWatch == Start /\ okUntil = [u \in {"https://ex.com/a.xml"} |-> -1]

\* which store call of one run of a loop body or of a handler fails: none,
\* or one of them (the update of the cache info, the title update, the
\* subscription, the first AddPost, the timestamp)
Faults == {"none", "cache", "title", "add", "post1", "stamp"}

Works(call, fault) == fault # call

\* the positions in content.Items whose AddPost fails
FailedPosts(fault) == IF fault = "post1" THEN {1} ELSE {}

\* a 200 response for url was received, with cache-valid-until cacheUntil
Watch(w, url, cacheUntil) ==
    IF url \in DOMAIN w THEN [w EXCEPT ![url] = cacheUntil] ELSE w

\* a step of another goroutine: no iteration and no call of the updater ends
NoUpdaterStep == last' = NoOutcome /\ ret' = "none" /\ listErr' = FALSE

\* a step that ends no add-feed request
NoHandlerStep == hlast' = "none"

\* the wall clock moves
Advance ==
    /\ advances < MaxClockAdvances
    /\ now' = now + 1
    /\ advances' = advances + 1
    /\ NoUpdaterStep /\ NoHandlerStep
    /\ UNCHANGED <<storeVars, updaterVars, handlerVars, okUntil>>
    /\ UNCHANGED <<schedVars, pipeVars, callVars, prefVars>>

\* updateFeeds: the range variable feed, the fields the loop body reads
LoopFeed(f) == [ID |-> f.ID, URL |-> f.URL, Title |-> f.Title]

\* updateFeeds: the iteration of the range loop ends (continue, or the end
\* of the loop body); after the last feed updateFeeds returns nil
Continue(o) ==
    /\ last' = o
    /\ req' = NoRequest
    /\ listErr' = FALSE
    /\ IF idx < Len(batch)
       THEN idx' = idx + 1 /\ upc' = "fetch" /\ ret' = "none" /\ batch' = batch
       ELSE idx' = 0 /\ upc' = "idle" /\ ret' = "nil" /\ batch' = << >>

\* a variant of FetchFailed that returns the error of FetchFeed from
\* updateFeeds (return err instead of continue)
FetchFailedReturns(o) ==
    /\ last' = o
    /\ req' = NoRequest
    /\ listErr' = FALSE
    /\ idx' = 0 /\ upc' = "idle" /\ ret' = "err" /\ batch' = << >>

\* a variant of FetchFailed that tries the feed again until its fetch works
FetchFailedRetrying(o) ==
    /\ last' = o
    /\ req' = NoRequest
    /\ listErr' = FALSE
    /\ idx' = idx /\ upc' = "fetch" /\ ret' = "none" /\ batch' = batch

\* updateFeeds: FetchFeed returned an error; it is logged and the loop
\* continues
FetchFailed(o) == Continue(o)

\* a variant of ListFailed that logs the error of GetAllFeeds and returns nil
ListFailedSwallowed == ret' = "nil" /\ upc' = "idle" /\ idx' = 0 /\ batch' = << >>

\* a variant of ListFailed after which the goroutine of Start leaves its
\* loop (return on the error of updateFeeds) and selects no more
ListFailedFatal == ret' = "err" /\ upc' = "returned" /\ idx' = 0 /\ batch' = << >>

\* updateFeeds: GetAllFeeds returned an error, which updateFeeds returns
ListFailed == ret' = "err" /\ upc' = "idle" /\ idx' = 0 /\ batch' = << >>

\* updateFeeds starts and loads the feed list
updateFeedsStarts ==
    /\ \E dbOk \in BOOLEAN :
         LET r == GetAllFeeds(feeds, dbOk)
         IN  /\ listErr' = r.err
             /\ last' = NoOutcome
             /\ IF r.err THEN ListFailed
                ELSE IF Len(r.feeds) = 0
                THEN ret' = "nil" /\ upc' = "idle" /\ idx' = 0 /\ batch' = << >>
                ELSE /\ ret' = "none" /\ upc' = "fetch" /\ idx' = 1
                     /\ batch' = [i \in 1..Len(r.feeds) |-> LoopFeed(r.feeds[i])]
    /\ NoHandlerStep
    /\ UNCHANGED req
    /\ UNCHANGED <<clockVars, storeVars, handlerVars, okUntil>>
    /\ UNCHANGED <<pipeVars, callVars, prefVars>>

\* case <-u.ticker.C: the ticker fires and the goroutine, which waits in
\* its select, receives the tick at once
UpdaterTick ==
    /\ upc = "idle" /\ ~exited
    /\ updateFeedsStarts
    /\ UNCHANGED schedVars

\* updateFeeds -> FetchFeed -> fetchFeedWithCache, up to sending the GET; the
\* request carries the context of Start, and client.Do returns the error of
\* a context that is cancelled already without sending it
UpdaterFetch ==
    /\ upc = "fetch"
    /\ \E dbOk \in BOOLEAN :
         LET s == fetchStart(feeds, batch[idx].URL, now, dbOk)
         IN  CASE s.kind = "error" -> FetchFailed(Outcome("error", "none", FALSE, {}))
               [] s.kind = "skip" -> Continue(Outcome("skip", "none", TRUE, {}))
               [] ctxDone -> FetchFailed(Outcome("error", "transport", TRUE, {}))
               [] OTHER -> /\ req' = s.req
                           /\ upc' = "await"
                           /\ NoUpdaterStep
                           /\ UNCHANGED <<batch, idx>>
    /\ NoHandlerStep
    /\ UNCHANGED <<clockVars, storeVars, handlerVars, okUntil>>
    /\ UNCHANGED <<schedVars, pipeVars, callVars, prefVars>>

\* the response arrives: the rest of fetchFeedWithCache and of FetchFeed,
\* then the rest of the loop body of updateFeeds
UpdaterResponse ==
    /\ upc = "await"
    /\ \E resp \in Responses(req.url) :
         LET r == fetchResult(resp, now)
             feed == batch[idx]
         IN  CASE r.kind = "error" ->
                    /\ FetchFailed(Outcome("error", NetClass(resp), TRUE, {}))
                    /\ UNCHANGED <<feeds, posts, okUntil>>
               [] r.kind = "nil" ->
                    /\ feeds' = storeCacheInfo(feeds, req.url, r, TRUE, TRUE)
                    /\ Continue(Outcome("notmodified", NetClass(resp), TRUE, {}))
                    /\ UNCHANGED <<posts, okUntil>>
               [] OTHER ->
                    \E fault \in Faults \ {"add"} :
                      LET cached == storeCacheInfo(feeds, req.url, r,
                                                   TRUE, Works("cache", fault))
                          done == ingest(cached, posts, feed, r.content, now,
                                         Works("title", fault), FailedPosts(fault),
                                         Works("stamp", fault))
                          rowThere == /\ feed.ID \in DOMAIN feeds
                                      /\ feeds[feed.ID].url = feed.URL
                                      /\ feeds[feed.ID].title # NULL
                      IN  /\ feeds' = done.feeds
                          /\ posts' = done.posts
                          /\ okUntil' = Watch(okUntil, req.url, r.cacheInfo.cacheUntil)
                          /\ Continue(Outcome("ok", NetClass(resp), rowThere /\ fault = "none",
                                              Guids(r.content)))
    /\ NoHandlerStep
    /\ UNCHANGED <<clockVars, user_feeds, handlerVars>>
    /\ UNCHANGED <<schedVars, pipeVars, callVars, prefVars>>

\* handleAddFeed for a url of urls: the part of the request that runs
\* without waiting for the network; where the feeds table stops, MaxFeedId,
\* no new feed is begun
HandlerFetchOf(urls) ==
    /\ hpc = "none"
    /\ \E userId \in Users, url \in urls, dbOk \in BOOLEAN, dbOkAdd \in BOOLEAN :
         /\ \/ \E id \in DOMAIN feeds : feeds[id].url = url
            \/ NextRowId(DOMAIN feeds) <= MaxFeedId
         /\ LET s == fetchStart(feeds, url, now, dbOk)
                sub == subscribeNil(feeds, posts, user_feeds, userId, url, dbOkAdd)
            IN  CASE s.kind = "error" ->
                       /\ hlast' = "error"
                       /\ UNCHANGED <<handlerVars, storeVars>>
                  [] s.kind = "skip" ->
                       /\ feeds' = sub.feeds
                       /\ posts' = sub.posts
                       /\ user_feeds' = sub.user_feeds
                       /\ hlast' = sub.ended
                       /\ UNCHANGED handlerVars
                  [] OTHER ->
                       /\ hpc' = "await" /\ huser' = userId /\ hreq' = s.req
                       /\ NoHandlerStep
                       /\ UNCHANGED storeVars
    /\ NoUpdaterStep
    /\ UNCHANGED <<clockVars, updaterVars, okUntil>>
    /\ UNCHANGED <<schedVars, pipeVars, callVars, prefVars>>

HandlerFetch == HandlerFetchOf(Urls)

\* the add-feed requests for the watched feed URL only
HandlerFetchWatched == HandlerFetchOf(DOMAIN okUntil)

\* handleAddFeed: the response arrives, the rest of the handler
HandlerResponse ==
    /\ hpc = "await"
    /\ \/ \E id \in DOMAIN feeds : feeds[id].url = hreq.url
       \/ NextRowId(DOMAIN feeds) <= MaxFeedId
    /\ \E resp \in Responses(hreq.url) :
         LET r == fetchResult(resp, now)
         IN  CASE r.kind = "error" ->
                    /\ hlast' = "error"
                    /\ UNCHANGED <<storeVars, okUntil>>
               [] r.kind = "nil" ->
                    \E dbOkAdd \in BOOLEAN :
                      LET cached == storeCacheInfo(feeds, hreq.url, r, TRUE, TRUE)
                          sub == subscribeNil(cached, posts, user_feeds, huser,
                                              hreq.url, dbOkAdd)
                      IN  /\ feeds' = sub.feeds
                          /\ posts' = sub.posts
                          /\ user_feeds' = sub.user_feeds
                          /\ hlast' = sub.ended
                          /\ UNCHANGED okUntil
               [] OTHER ->
                    /\ hlast' = r.kind
                    /\ \E fault \in Faults \ {"stamp"} :
                      LET cached == storeCacheInfo(feeds, hreq.url, r,
                                                   TRUE, Works("cache", fault))
                          sub == subscribe(cached, posts, user_feeds, huser, hreq.url,
                                           r.content, Works("add", fault),
                                           Works("title", fault), FailedPosts(fault))
                      IN  /\ feeds' = sub.feeds
                          /\ posts' = sub.posts
                          /\ user_feeds' = sub.user_feeds
                          /\ okUntil' = Watch(okUntil, hreq.url, r.cacheInfo.cacheUntil)
    /\ hpc' = "none" /\ huser' = 0 /\ hreq' = NoRequest
    /\ NoUpdaterStep
    /\ UNCHANGED <<clockVars, updaterVars>>
    /\ UNCHANGED <<schedVars, pipeVars, callVars, prefVars>>

\* handleDeleteFeed: DeleteFeed(feedId) for the feedId of the request path
HandleDeleteFeed ==
    /\ \E feedId \in DOMAIN feeds, dbOk \in BOOLEAN :
         LET d == DeleteFeed(feeds, posts, user_feeds, feedId, dbOk)
         IN  /\ feeds' = d.feeds
             /\ posts' = d.posts
             /\ user_feeds' = d.user_feeds
             /\ user_post_states' = PostStatesOf(user_post_states, d.posts)
    /\ NoUpdaterStep /\ NoHandlerStep
    /\ UNCHANGED <<clockVars, updaterVars, handlerVars, okUntil>>
    /\ UNCHANGED <<schedVars, pipeVars, callVars, user_preferences>>

Next ==
    \/ Advance
    \/ UpdaterTick
    \/ UpdaterFetch
    \/ UpdaterResponse
    \/ HandlerFetch
    \/ HandlerResponse

Spec == Init /\ [][Next]_vars

NextWatch ==
    \/ Advance
    \/ UpdaterTick
    \/ UpdaterFetch
    \/ UpdaterResponse
    \/ HandlerFetchWatched
    \/ HandlerResponse

\* the service with one feed URL, whose 200 responses are kept track of
SpecWatch == InitWatch /\ [][NextWatch]_vars

\* ------------------------------------------------- the updater's lifecycle
\* two feeds, each added by a user before
SubscribedStore ==
    LET a == AddFeedForUser(<< >>, {}, 1, "https://ex.com/a.xml", TRUE)
        ta == UpdateFeedTitle(a.feeds, a.feedId, "Feed A", TRUE)
        b == AddFeedForUser(ta, a.user_feeds, 1, "https://ex.com/b.xml", TRUE)
        tb == UpdateFeedTitle(b.feeds, b.feedId, "Feed B", TRUE)
    IN  /\ feeds = tb
        /\ posts = {}
        /\ user_feeds = b.user_feeds

InitSched == Idle /\ NoCalls /\ SubscribedStore /\ okUntil = << >>

\* another step than one of the updater or of a handler
Elsewhere ==
    /\ NoUpdaterStep /\ NoHandlerStep
    /\ UNCHANGED <<clockVars, storeVars, updaterVars, handlerVars, okUntil>>
    /\ UNCHANGED <<pipeVars, callVars, prefVars>>

\* the feeds of the running batch for which FetchFeed has been called
StartedFeeds == IF upc = "fetch" THEN idx - 1 ELSE idx

\* a stop signal arrives: it is noted when it is the first one given and a
\* batch runs
Signal ==
    signalAt' = IF upc # "idle" /\ ~ctxDone /\ stopCall = "none"
                THEN StartedFeeds ELSE signalAt

\* the interval of u.ticker has passed: a tick is put into ticker.C, which
\* holds one tick
TickerFires ==
    /\ ticker = "armed"
    /\ ticker' = "pending"
    /\ Elsewhere
    /\ UNCHANGED <<ctxDone, exited, stopCall, signalAt>>

\* main: cancel()
Cancel ==
    /\ ~ctxDone
    /\ ctxDone' = TRUE
    /\ Signal
    /\ Elsewhere
    /\ UNCHANGED <<ticker, exited, stopCall>>

\* Stop(): u.done <- true begins; done has no buffer, the send waits for the
\* goroutine to receive
StopCalled ==
    /\ stopCall = "none"
    /\ stopCall' = "sending"
    /\ Signal
    /\ Elsewhere
    /\ UNCHANGED <<ctxDone, ticker, exited>>

\* a variant of SelectTick whose goroutine does not wait for updateFeeds to
\* return before it selects again (go u.updateFeeds(ctx)): a tick is taken
\* while a batch runs and updateFeeds starts anew
SelectTickConcurrent ==
    /\ ~exited
    /\ ticker = "pending"
    /\ ticker' = "armed"
    /\ signalAt' = -1
    /\ updateFeedsStarts
    /\ UNCHANGED <<ctxDone, exited, stopCall>>

\* select, case <-u.ticker.C: the goroutine takes the tick that waits and
\* calls updateFeeds
SelectTick ==
    /\ upc = "idle" /\ ~exited
    /\ ticker = "pending"
    /\ ticker' = "armed"
    /\ signalAt' = -1
    /\ updateFeedsStarts
    /\ UNCHANGED <<ctxDone, exited, stopCall>>

\* select, case <-u.done: the goroutine receives what Stop() sends, stops
\* the ticker and returns; Stop() returns
SelectDone ==
    /\ upc = "idle" /\ ~exited
    /\ stopCall = "sending"
    /\ stopCall' = "returned"
    /\ ticker' = "stopped"
    /\ exited' = TRUE
    /\ Elsewhere
    /\ UNCHANGED <<ctxDone, signalAt>>

\* select, case <-ctx.Done(): the goroutine stops the ticker and returns
SelectCtxDone ==
    /\ upc = "idle" /\ ~exited
    /\ ctxDone
    /\ ticker' = "stopped"
    /\ exited' = TRUE
    /\ Elsewhere
    /\ UNCHANGED <<ctxDone, stopCall, signalAt>>

NextSched ==
    \/ TickerFires
    \/ Cancel
    \/ StopCalled
    \/ SelectTick
    \/ SelectDone
    \/ SelectCtxDone
    \/ UpdaterFetch
    \/ UpdaterResponse

\* the updater from Start to its end, over a store with two feeds
SpecSched == InitSched /\ [][NextSched]_vars

\* the same, with every call the batch makes returning: FetchFeed returns
\* when the store answers and, once a GET is sent, when the response or the
\* client's timeout of 30 seconds comes
SpecSchedFair ==
    SpecSched /\ WF_vars(UpdaterFetch) /\ WF_vars(UpdaterResponse)

\* ------------------------------------- the refresh, statement by statement
\* the response arrives: the rest of fetchFeedWithCache and of FetchFeed,
\* which stores the cache info and returns to the loop body of updateFeeds
FetchFeedReturns ==
    /\ upc = "await"
    /\ \E resp \in Responses(req.url), dbOk \in BOOLEAN :
         LET r == fetchResult(resp, now)
             feed == batch[idx]
         IN  CASE r.kind = "error" ->
                    /\ FetchFailed(Outcome("error", NetClass(resp), TRUE, {}))
                    /\ UNCHANGED <<feeds, fetched>>
               [] r.kind = "nil" ->
                    /\ feeds' = storeCacheInfo(feeds, req.url, r, TRUE, dbOk)
                    /\ Continue(Outcome("notmodified", NetClass(resp), TRUE, {}))
                    /\ UNCHANGED fetched
               [] OTHER ->
                    /\ feeds' = storeCacheInfo(feeds, req.url, r, TRUE, dbOk)
                    /\ fetched' = [kind |-> "content", content |-> r.content,
                                   item |-> 1, clean |-> dbOk,
                                   before |-> FeedStruct(feeds, feed.ID)]
                    /\ upc' = "title"
                    /\ NoUpdaterStep
                    /\ UNCHANGED <<batch, idx, req>>
    /\ NoHandlerStep
    /\ UNCHANGED <<clockVars, posts, user_feeds, handlerVars, okUntil, seen>>
    /\ UNCHANGED <<schedVars, callVars, prefVars>>

\* a statement of the loop body after FetchFeed: the updater goes on to the
\* statement at pc, having changed the feeds table or the posts table
LoopStatement(pc) ==
    /\ upc' = pc
    /\ NoUpdaterStep /\ NoHandlerStep
    /\ UNCHANGED <<batch, idx, req>>
    /\ UNCHANGED <<clockVars, user_feeds, handlerVars, okUntil, seen>>
    /\ UNCHANGED <<schedVars, callVars, prefVars>>

\* updateFeeds: the title is compared and updated
LoopTitle ==
    /\ upc = "title"
    /\ \E dbOk \in BOOLEAN :
         LET feed == batch[idx]
             c == fetched.content
             changed == TitleChanged(c.Title, feed.Title)
         IN  /\ feeds' = IF changed
                         THEN UpdateFeedTitle(feeds, feed.ID, c.Title, dbOk)
                         ELSE feeds
             /\ fetched' = [fetched EXCEPT !.clean = @ /\ (changed => dbOk)]
             /\ LoopStatement(IF Len(c.Items) = 0 THEN "stamp" ELSE "posts")
    /\ UNCHANGED posts

\* updateFeeds: one AddPost of the loop over content.Items
LoopAddPost ==
    /\ upc = "posts"
    /\ \E dbOk \in BOOLEAN :
         LET feed == batch[idx]
             c == fetched.content
             a == AddPost(posts, feeds, feed.ID, c.Items[fetched.item], dbOk)
         IN  /\ posts' = a.posts
             /\ fetched' = [fetched EXCEPT !.item = @ + 1,
                                           !.clean = @ /\ ~a.err]
             /\ LoopStatement(IF fetched.item = Len(c.Items)
                              THEN "stamp" ELSE "posts")
    /\ UNCHANGED feeds

\* updateFeeds: UpdateFeedLastFetched, the end of the loop body
LoopStamp ==
    /\ upc = "stamp"
    /\ \E dbOk \in BOOLEAN :
         /\ feeds' = UpdateFeedLastFetched(feeds, batch[idx].ID, now, dbOk)
         /\ Continue(Outcome("ok", "200", fetched.clean /\ dbOk,
                             Guids(fetched.content)))
    /\ fetched' = NoFetched
    /\ NoHandlerStep
    /\ UNCHANGED <<clockVars, posts, user_feeds, handlerVars, okUntil, seen>>
    /\ UNCHANGED <<schedVars, callVars, prefVars>>

\* another connection reads the row of a feed (GetFeedByURL, as a
\* concurrent FetchFeed does)
ReaderReads ==
    /\ \E id \in DOMAIN feeds :
         seen' = GetFeedByURL(feeds, feeds[id].url, TRUE).feed
    /\ NoUpdaterStep /\ NoHandlerStep
    /\ UNCHANGED <<clockVars, storeVars, updaterVars, handlerVars, okUntil>>
    /\ UNCHANGED <<schedVars, fetched, callVars, prefVars>>

NextPipe ==
    \/ Advance
    \/ UpdaterTick
    \/ UpdaterFetch
    \/ FetchFeedReturns
    \/ LoopTitle
    \/ LoopAddPost
    \/ LoopStamp
    \/ ReaderReads

\* the refresh of two subscribed feeds with every statement that writes to
\* the store a step of its own, and a concurrent reader
SpecPipe == InitSched /\ [][NextPipe]_vars

\* ------------------------------------------- functions called on their own
\* the calls: parseMaxAge of a Cache-Control text, extractCacheInfo of the
\* headers of a response
CallArgs ==
    { [fn |-> "parseMaxAge", cacheControl |-> cc] : cc \in ParseMaxAgeInputs }
    \cup { [fn |-> "extractCacheInfo", headers |-> h] : h \in HeaderInputs }

InitCall ==
    /\ Idle
    /\ feeds = << >> /\ posts = {} /\ user_feeds = {}
    /\ okUntil = << >>
    /\ arg \in CallArgs
    /\ res = NoCall

\* the call returns v
Returns(v) ==
    /\ res = NoCall
    /\ res' = v
    /\ NoUpdaterStep /\ NoHandlerStep
    /\ UNCHANGED <<clockVars, storeVars, updaterVars, handlerVars, okUntil>>
    /\ UNCHANGED <<schedVars, pipeVars, arg, prefVars>>

CallParseMaxAge ==
    /\ arg.fn = "parseMaxAge"
    /\ Returns([fn |-> "parseMaxAge", val |-> parseMaxAge(arg.cacheControl)])

\* extractCacheInfo, called at time now
CallExtractCacheInfo ==
    /\ arg.fn = "extractCacheInfo"
    /\ Returns([fn |-> "extractCacheInfo", t |-> now,
                info |-> extractCacheInfo(arg.headers, now)])

NextCall ==
    \/ Advance
    \/ CallParseMaxAge
    \/ CallExtractCacheInfo

\* parseMaxAge and extractCacheInfo, each called once with one of the
\* inputs, at one of the times
SpecCall == InitCall /\ [][NextCall]_vars

\* the most zeros that follow the leading digit of a max-age value
MaxZeros == 19

\* the bits of int (strconv.IntSize) in the builds of the program
IntSizes == {32, 64}

\* max-age values: a digit followed by zeros, up to values no int holds, and
\* the values next to the ends of the ranges of int and of a Duration in
\* seconds
MaxAgeValues ==
    { <<Digits[d + 1]>> \o [i \in 1..k |-> "0"] : d \in 1..9, k \in 0..MaxZeros }
    \cup { <<"0">>,
           <<"3", "6", "0", "0">>,
           <<"2", "1", "4", "7", "4", "8", "3", "6", "4", "7">>,
           <<"2", "1", "4", "7", "4", "8", "3", "6", "4", "8">>,
           <<"9", "2", "2", "3", "3", "7", "2", "0", "3", "6">>,
           <<"9", "2", "2", "3", "3", "7", "2", "0", "3", "7">>,
           <<"9", "2", "2", "3", "3", "7", "2", "0", "3", "6",
             "8", "5", "4", "7", "7", "5", "8", "0", "7">>,
           <<"9", "2", "2", "3", "3", "7", "2", "0", "3", "6",
             "8", "5", "4", "7", "7", "5", "8", "0", "8">> }

InitWidth ==
    /\ Idle
    /\ feeds = << >> /\ posts = {} /\ user_feeds = {}
    /\ okUntil = << >>
    /\ arg \in { [fn |-> "maxAgeCacheUntil", cacheControl |-> MaxAgeOf(v),
                  intSize |-> n] : v \in MaxAgeValues, n \in IntSizes }
    /\ res = NoCall

\* extractCacheInfo on a response with this Cache-Control and no Expires
CallMaxAgeCacheUntil ==
    /\ arg.fn = "maxAgeCacheUntil"
    /\ Returns([fn |-> "maxAgeCacheUntil",
                info |-> maxAgeCacheUntil(arg.cacheControl, arg.intSize)])

NextWidth == CallMaxAgeCacheUntil

\* the cache-valid-until of a max-age value, computed once for each of the
\* values in each of the builds
SpecWidth == InitWidth /\ [][NextWidth]_vars

\* the add-feed requests for the feed whose document changes
HandlerFetchChanging == HandlerFetchOf({"https://ex.com/c.xml"})

NextItems ==
    \/ Advance
    \/ UpdaterTick
    \/ UpdaterFetch
    \/ UpdaterResponse
    \/ HandlerFetchChanging
    \/ HandlerResponse
    \/ HandleDeleteFeed

\* the service with one feed URL, whose document changes between fetches,
\* and with the feed being deleted and added again
SpecItems == Init /\ [][NextItems]_vars

\* handleMarkPostSeen: MarkPostAsSeen(userId, postId) for the postId of the
\* request path, that of a post or of none
HandleMarkPostSeen ==
    /\ \E userId \in Users, dbOk \in BOOLEAN,
          postId \in {p.id : p \in posts} \cup {NextRowId({p.id : p \in posts})} :
         user_post_states' =
             MarkPostAsSeen(user_post_states, posts, userId, postId, dbOk).user_post_states
    /\ NoUpdaterStep /\ NoHandlerStep
    /\ UNCHANGED <<clockVars, updaterVars, handlerVars, okUntil, storeVars>>
    /\ UNCHANGED <<schedVars, pipeVars, callVars, user_preferences>>

\* handleMarkAllSeen: MarkAllFeedPostsAsSeen(userId, feedId) for the feedId of
\* the request path
HandleMarkAllSeen ==
    /\ \E userId \in Users, feedId \in DOMAIN feeds, dbOk \in BOOLEAN :
         user_post_states' =
             MarkAllFeedPostsAsSeen(user_post_states, posts, userId, feedId, dbOk).user_post_states
    /\ NoUpdaterStep /\ NoHandlerStep
    /\ UNCHANGED <<clockVars, updaterVars, handlerVars, okUntil, storeVars>>
    /\ UNCHANGED <<schedVars, pipeVars, callVars, user_preferences>>

NextSeen ==
    \/ Advance
    \/ UpdaterTick
    \/ UpdaterFetch
    \/ UpdaterResponse
    \/ HandlerFetchChanging
    \/ HandlerResponse
    \/ HandleDeleteFeed
    \/ HandleMarkPostSeen
    \/ HandleMarkAllSeen

\* the service with one feed URL whose document changes between fetches, the
\* user marking posts as seen, and the feed being deleted and added again
SpecSeen == Init /\ [][NextSeen]_vars

\* --------------------------------------------------- the store on its own
\* the users that are signed in, and the feed URLs they add
StoreUsers == {1, 2}
StoreUrls == {"https://ex.com/a.xml", "https://ex.com/b.xml", "https://ex.com/c.xml"}

\* the values users set their preferences to
PostsPerFeedValues == {5, 20}
ColumnsValues == {3}

\* what a call of a Store method (or of the delete handler) made and
\* returned; seq tells a call from the one before it
StoreCall(fn, user, key, err, val) ==
    [fn |-> fn, user |-> user, key |-> key, err |-> err, val |-> val,
     seq |-> IF res = NoCall THEN 0 ELSE 1 - res.seq]

\* a step of the store on its own
StoreStep ==
    /\ NoUpdaterStep /\ NoHandlerStep
    /\ UNCHANGED <<clockVars, updaterVars, handlerVars, okUntil>>
    /\ UNCHANGED <<schedVars, pipeVars, arg>>

\* the grid position AddFeedForUser gives to a new subscription of userId
NextGridPosition(ufs, userId) ==
    IF FeedsOfUser(ufs, userId) = {} THEN 0
    ELSE (CHOOSE p \in {uf.grid_position : uf \in FeedsOfUser(ufs, userId)} :
             \A uf \in FeedsOfUser(ufs, userId) : uf.grid_position <= p) + 1

\* Store.AddFeedForUser(userId, url)
CallAddFeedForUser ==
    /\ \E userId \in StoreUsers, url \in StoreUrls, dbOk \in BOOLEAN :
         /\ \/ \E id \in DOMAIN feeds : feeds[id].url = url
            \/ NextRowId(DOMAIN feeds) <= MaxStoreFeedId
         /\ NextGridPosition(user_feeds, userId) <= MaxGridPosition
         /\ LET a == AddFeedForUser(feeds, user_feeds, userId, url, dbOk)
            IN  /\ feeds' = a.feeds
                /\ user_feeds' = a.user_feeds
    /\ StoreStep /\ UNCHANGED res
    /\ UNCHANGED <<posts, prefVars>>

\* Store.AddPost(feedId, ...) of the item of a feed document
CallAddPost ==
    /\ \E feedId \in DOMAIN feeds, dbOk \in BOOLEAN :
         LET a == AddPost(posts, feeds, feedId, NormalizeFeed(DocC, now).Items[1], dbOk)
         IN  /\ posts' = a.posts
    /\ StoreStep /\ UNCHANGED res
    /\ UNCHANGED <<feeds, user_feeds, prefVars>>

\* handleDeleteFeed: DeleteFeed(feedId) for the feedId of the request path
CallDeleteFeed ==
    /\ \E feedId \in DOMAIN feeds, dbOk \in BOOLEAN :
         LET d == DeleteFeed(feeds, posts, user_feeds, feedId, dbOk)
         IN  /\ feeds' = d.feeds
             /\ posts' = d.posts
             /\ user_feeds' = d.user_feeds
             /\ user_post_states' = PostStatesOf(user_post_states, d.posts)
    /\ StoreStep /\ UNCHANGED res
    /\ UNCHANGED user_preferences

\* Store.MoveFeedDown(userID, i)
CallMoveFeedDown ==
    /\ \E userID \in StoreUsers, i \in 1..MaxStoreFeedId, dbOk \in BOOLEAN :
         LET m == MoveFeedDown(user_feeds, userID, i, dbOk)
         IN  /\ user_feeds' = m.user_feeds
    /\ StoreStep /\ UNCHANGED res
    /\ UNCHANGED <<feeds, posts, prefVars>>

\* Store.MoveFeedUp(userID, i)
CallMoveFeedUp ==
    /\ \E userID \in StoreUsers, i \in 1..MaxStoreFeedId, dbOk \in BOOLEAN :
         LET m == MoveFeedUp(user_feeds, userID, i, dbOk)
         IN  /\ user_feeds' = m.user_feeds
    /\ StoreStep /\ UNCHANGED res
    /\ UNCHANGED <<feeds, posts, prefVars>>

InitStore == Start /\ okUntil = << >>

NextStore ==
    \/ CallAddFeedForUser
    \/ CallAddPost
    \/ CallDeleteFeed
    \/ CallMoveFeedDown
    \/ CallMoveFeedUp

\* the feeds, posts and user_feeds tables under the calls of two users
SpecStore == InitStore /\ [][NextStore]_vars

\* Store.GetUserPostsPerFeed(userId)
CallGetUserPostsPerFeed ==
    /\ \E userId \in StoreUsers, dbOk \in BOOLEAN :
         LET g == GetUserPostsPerFeed(user_preferences, userId, dbOk)
         IN  res' = StoreCall("GetUserPostsPerFeed", userId, 0, g.err, g.val)
    /\ StoreStep
    /\ UNCHANGED <<storeVars, prefVars>>

\* Store.SetUserPostsPerFeed(userId, postsPerFeed)
CallSetUserPostsPerFeed ==
    /\ \E userId \in StoreUsers, postsPerFeed \in PostsPerFeedValues, dbOk \in BOOLEAN :
         /\ user_preferences' =
                SetUserPostsPerFeed(user_preferences, userId, postsPerFeed, dbOk)
         /\ res' = StoreCall("SetUserPostsPerFeed", userId, postsPerFeed, ~dbOk, 0)
    /\ StoreStep
    /\ UNCHANGED <<storeVars, user_post_states>>

\* Store.SetUserColumns(userId, columns)
CallSetUserColumns ==
    /\ \E userId \in StoreUsers, columns \in ColumnsValues, dbOk \in BOOLEAN :
         /\ user_preferences' = SetUserColumns(user_preferences, userId, columns, dbOk)
         /\ res' = StoreCall("SetUserColumns", userId, columns, ~dbOk, 0)
    /\ StoreStep
    /\ UNCHANGED <<storeVars, user_post_states>>

NextPrefs ==
    \/ CallGetUserPostsPerFeed
    \/ CallSetUserPostsPerFeed
    \/ CallSetUserColumns

\* the user_preferences table under the calls of two users
SpecPrefs == InitStore /\ [][NextPrefs]_vars

\* the service with feeds being deleted as well
SpecDelete == Init /\ [][Next \/ HandleDeleteFeed]_vars

\* ------------------------------------------------------------ properties
\* the cache metadata of a feeds row
CacheMeta(row) == <<row.etag, row.last_modified, row.cache_until>>

\* the stored cache-valid-until of a feeds row exists and is strictly after t
Fresh(row, t) == row.cache_until # 0 /\ row.cache_until > t

\* the step is one of the updater that began at the cache check
UpdaterChecks == upc = "fetch" /\ <<upc, idx>>' # <<upc, idx>>

\* the step ends an iteration of the range loop that had a GET in flight
UpdaterAnswered == upc = "await" /\ last' # NoOutcome

\* the step sends a GET for url
SendsGet(url) ==
    \/ upc = "fetch" /\ upc' = "await" /\ req'.url = url
    \/ hpc = "none" /\ hpc' = "await" /\ hreq'.url = url

\* the iteration just ended in an error of the lookup of the feed row
LookupFailed == last'.result = "error" /\ last'.net = "none"

\* C1: a refresh attempt for a feed whose stored cache-valid-until exists
\* and is strictly after now returns skip and sends no GET (provided the
\* row could be read); when cache-valid-until is zero or not strictly after
\* now the attempt sends the GET; the add-feed handler sends no GET for a
\* fresh feed either
C1_SkipCorrectness ==
    [][ /\ UpdaterChecks =>
              \A id \in DOMAIN feeds :
                 feeds[id].url = batch[idx].URL =>
                    IF Fresh(feeds[id], now)
                    THEN /\ upc' # "await"
                         /\ req' = NoRequest
                         /\ LookupFailed \/ last'.result = "skip"
                    ELSE LookupFailed \/ SendsGet(batch[idx].URL)
        /\ \A id \in DOMAIN feeds :
              Fresh(feeds[id], now) => ~SendsGet(feeds[id].url) ]_vars

\* an attempt was skipped because the cache is still valid
C1_Witness ==
    /\ last.result = "skip"
    /\ \E id \in DOMAIN feeds : Fresh(feeds[id], now)

\* C2: an attempt that reached the network and ended with 200 (its store
\* calls succeeding) or with 304 sets last-fetched-at of the feed to now; a
\* skipped attempt leaves it unchanged
C2_StampOnNetworkOutcome ==
    [][ /\ UpdaterAnswered =>
              ( (last'.net = "304" \/ (last'.net = "200" /\ last'.clean))
                  => feeds'[batch[idx].ID].last_fetched_at = now )
        /\ (UpdaterChecks /\ last'.result = "skip") =>
              feeds'[batch[idx].ID].last_fetched_at
                 = feeds[batch[idx].ID].last_fetched_at ]_vars

\* C3: an attempt that is answered 304 leaves the stored items and the
\* cache metadata of every feed as they were
C3_NotModifiedKeepsItemsAndCache ==
    [][ (UpdaterAnswered /\ last'.net = "304") =>
           /\ posts' = posts
           /\ DOMAIN feeds' = DOMAIN feeds
           /\ \A id \in DOMAIN feeds :
                 CacheMeta(feeds'[id]) = CacheMeta(feeds[id]) ]_vars

\* a 304 answered the conditional request for a feed that has validators
C3_Witness ==
    /\ last.net = "304"
    /\ \E id \in DOMAIN feeds : feeds[id].etag # "" /\ ~Fresh(feeds[id], now)

\* C4: the cache metadata of a feeds row changes only in a step in which a
\* GET for the URL of the row was answered 200 and parsed, in a batch or in
\* the add-feed handler
C4_CacheWrittenOnlyOn200 ==
    [][ \A id \in DOMAIN feeds :
           (id \in DOMAIN feeds' /\ CacheMeta(feeds'[id]) # CacheMeta(feeds[id])) =>
              \/ upc = "await" /\ last'.net = "200" /\ req.url = feeds[id].url
              \/ hpc = "await" /\ hlast' = "content" /\ hreq.url = feeds[id].url ]_vars

\* a 200 of this instant has had its cache metadata stored
C4_Witness ==
    /\ last.net = "200"
    /\ \E id \in DOMAIN feeds : feeds[id].etag # "" /\ feeds[id].cache_until = now + 1

\* C5: however an iteration of the batch ends, the batch goes on with the
\* next feed of the list when there is one; and an iteration that was
\* answered 200 and whose store calls succeeded has stored every item of
\* the content and stamped last-fetched-at, wherever the feed is on the list
C5_BatchIsolation ==
    [][ (upc \in {"fetch", "await"} /\ last' # NoOutcome) =>
           /\ idx < Len(batch) =>
                 upc' = "fetch" /\ idx' = idx + 1 /\ batch' = batch
           /\ (last'.net = "200" /\ last'.clean) =>
                 /\ feeds'[batch[idx].ID].last_fetched_at = now
                 /\ \A g \in last'.guids :
                       \E p \in posts' : p.feed_id = batch[idx].ID /\ p.guid = g ]_vars

\* the first feed of a batch failed and the batch is at its second feed
C5_Witness == last.result = "error" /\ upc = "fetch" /\ idx = 2

\* C6: updateFeeds returns an error exactly when GetAllFeeds failed
C6_OnlyListErrorPropagates == (ret = "err") <=> listErr

\* a batch whose last feed failed has returned nil
C6_Witness == ret = "nil" /\ last.result = "error"

\* the items of the feed documents, as fetchFeedWithCache hands them on
ServedContents(url) ==
    {NormalizeFeed(resp.doc, now) : resp \in {r \in Responses(url) : NetClass(r) = "200"}}

\* C7: there is at most one posts row per (feed_id, guid); and adding the
\* items of a content whose items are all stored already changes no row and
\* returns no error
C7_OneItemPerFeedAndGuid ==
    /\ \A p, q \in posts : (p.feed_id = q.feed_id /\ p.guid = q.guid) => p = q
    /\ \A id \in DOMAIN feeds : \A c \in ServedContents(feeds[id].url) :
          (\A g \in Guids(c) : \E p \in posts : p.feed_id = id /\ p.guid = g) =>
             /\ AddPosts(posts, feeds, id, c.Items, 1, {}) = posts
             /\ \A i \in 1..Len(c.Items) :
                   ~AddPost(posts, feeds, id, c.Items[i], TRUE).err

\* both items were just ingested again: the second item of the document was
\* stored by an earlier run than the first
C7_Witness ==
    /\ last.net = "200" /\ last.clean /\ last.guids # {}
    /\ \E p, q \in posts :
          p.guid = "guid-1" /\ q.guid = "https://x/y" /\ q.id < p.id

\* C8: an attempt that ends in a transport error, in a status other than
\* 200 and 304, or in a parse failure is an error outcome, and it changes
\* no feeds row and no posts row
C8_FailedFetchIsError ==
    [][ (UpdaterAnswered /\ last'.net \in {"transport", "status", "parse"}) =>
           /\ last'.result = "error"
           /\ feeds' = feeds
           /\ posts' = posts ]_vars

\* a body that does not parse ended an iteration in an error
C8_Witness == last.net = "parse" /\ last.result = "error" /\ posts # {}

\* C9: once a 200 for a feed URL was received, by a batch or by the
\* add-feed handler, no batch sends a GET for the URL before the
\* cache-valid-until extracted from that response
C9_NoEarlyRefetch ==
    [][ \A u \in DOMAIN okUntil :
           (upc = "fetch" /\ upc' = "await" /\ req'.url = u) =>
              (okUntil[u] = -1 \/ now >= okUntil[u]) ]_vars

\* the max-age a Cache-Control text of the feed servers states
StatedMaxAge(cc) == IF cc = Str_maxage1 THEN 1 ELSE IF cc = Str_maxage0 THEN 0 ELSE -1

\* C10: a cycle in which a feed without stored cache metadata was answered
\* 200 with two items and Cache-Control max-age=N has stored both items,
\* the title and cache-valid-until = now + N; and a cycle that runs before
\* the stored cache-valid-until sends no GET for the feed, adds no posts row
\* and leaves last-fetched-at as it was
C10_TwoConsecutiveCycles ==
    [][ /\ ( /\ UpdaterAnswered
             /\ last'.net = "200" /\ last'.clean /\ Cardinality(last'.guids) = 2
             /\ CacheMeta(feeds[batch[idx].ID]) = <<"", "", 0>> ) =>
              \E resp \in Responses(req.url) :
                 /\ NetClass(resp) = "200"
                 /\ StatedMaxAge(resp.headers.CacheControl) >= 0
                 /\ feeds'[batch[idx].ID].etag = resp.headers.ETag
                 /\ feeds'[batch[idx].ID].title = resp.doc.Title
                 /\ \A g \in last'.guids :
                       \E p \in posts' : p.feed_id = batch[idx].ID /\ p.guid = g
                 /\ feeds'[batch[idx].ID].cache_until
                       = now + StatedMaxAge(resp.headers.CacheControl)
        /\ (UpdaterChecks /\ ~LookupFailed /\ Fresh(feeds[batch[idx].ID], now)) =>
              /\ upc' # "await"
              /\ posts' = posts
              /\ feeds'[batch[idx].ID].last_fetched_at
                    = feeds[batch[idx].ID].last_fetched_at ]_vars

\* the goroutine of Start takes a tick from ticker.C and calls updateFeeds
BatchStarts == ticker = "pending" /\ ticker' = "armed"

\* a stop signal has been given: the context is cancelled, or a call of
\* Stop() has returned
Stopped == ctxDone \/ stopCall = "returned"

\* C11: once the scheduler has been stopped, by a Stop() that returned or by
\* the cancellation of its context, no batch starts at any later time, a
\* tick that waits at the moment of the cancellation included
C11_NoBatchAfterStop == [][Stopped => ~BatchStarts]_vars

\* C12: when a stop signal (Stop() or the cancellation of the context)
\* arrives while a batch runs, FetchFeed is begun afterwards for no feed of
\* the batch that had not been started when the signal arrived
C12_NoNewFeedAfterSignal ==
    [][(signalAt # -1 /\ UpdaterChecks) => idx <= signalAt]_vars

\* the loop body of updateFeeds is under way after FetchFeed returned
Refreshing == upc \in {"title", "posts", "stamp"}

\* row, read while a refresh of its feed is under way, has the
\* cache-valid-until this refresh wrote and the last-fetched-at from before
TornRead(row) ==
    /\ Refreshing
    /\ row.ID = batch[idx].ID
    /\ row.CacheUntil # fetched.before.CacheUntil
    /\ row.LastFetchedAt = fetched.before.LastFetchedAt
    /\ row.LastFetchedAt # now

\* C13: under any interleaving of a refresh of a feed with a reader of the
\* store, the reader never reads the row of the feed with the new
\* cache-valid-until of the refresh and the old last-fetched-at
C13_ReaderSeesWholeRefresh == [][seen' # seen => ~TornRead(seen')]_vars

\* C14: within the pipeline of a feed the update of the feed's cache
\* metadata comes after the feed's items have been written: as long as the
\* loop body has not passed the writing of the items, the cache metadata of
\* the feed are those from before the refresh
C14_CacheMetadataAfterItems ==
    (upc \in {"title", "posts"}) =>
        /\ feeds[batch[idx].ID].etag = fetched.before.ETag
        /\ feeds[batch[idx].ID].last_modified = fetched.before.LastModified
        /\ feeds[batch[idx].ID].cache_until = fetched.before.CacheUntil

\* ---------------------------------------------------- the cache headers
\* the N of a token of the form max-age=N with N a non-negative integer, -1
\* for any other token
TokenMaxAge(token) ==
    LET n == Atoi(TrimPrefix(TrimSpace(token), MaxAgePrefix))
    IN  IF HasPrefix(TrimSpace(token), MaxAgePrefix) /\ ~n.err /\ n.val >= 0
        THEN n.val ELSE -1

RECURSIVE ContainedMaxAge(_)
\* the N of the first of the tokens that is max-age=N with N a non-negative
\* integer; -1 when there is none
ContainedMaxAge(parts) ==
    IF Len(parts) = 0 THEN -1
    ELSE IF TokenMaxAge(Head(parts)) >= 0 THEN TokenMaxAge(Head(parts))
    ELSE ContainedMaxAge(Tail(parts))

\* the N of the max-age=N a Cache-Control text contains, -1 when it
\* contains none with N a non-negative integer
DirectiveMaxAge(text) == ContainedMaxAge(Split(text, ","))

\* the Expires header is present and parses as a date
ValidExpires(headers) == headers.Expires.set /\ headers.Expires.rfc1123

\* C15: with no Expires header that parses as a date and a Cache-Control
\* that contains max-age=N, N a non-negative integer (0 included),
\* extractCacheInfo called at t sets cache-valid-until to t + N
C15_MaxAgeSetsCacheUntil ==
    ( /\ res.fn = "extractCacheInfo"
      /\ ~ValidExpires(arg.headers)
      /\ DirectiveMaxAge(arg.headers.CacheControl) >= 0 ) =>
        res.info.cacheUntil = res.t + DirectiveMaxAge(arg.headers.CacheControl)

\* C16: cache-valid-until is chosen in priority order: the time of an
\* Expires header that is present and parses as a date, whatever the
\* Cache-Control; otherwise t + N of a valid max-age=N; otherwise t + 1 hour
C16_CacheUntilPriority ==
    res.fn = "extractCacheInfo" =>
        res.info.cacheUntil =
            IF ValidExpires(arg.headers) THEN arg.headers.Expires.time
            ELSE IF DirectiveMaxAge(arg.headers.CacheControl) >= 0
            THEN res.t + DirectiveMaxAge(arg.headers.CacheControl)
            ELSE res.t + DefaultCacheSeconds

RECURSIVE FirstMaxAgeToken(_)
\* the first of the comma-separated tokens that, trimmed, starts with
\* max-age=; << >> when there is none
FirstMaxAgeToken(parts) ==
    IF Len(parts) = 0 THEN << >>
    ELSE IF HasPrefix(TrimSpace(Head(parts)), MaxAgePrefix)
    THEN TrimSpace(Head(parts))
    ELSE FirstMaxAgeToken(Tail(parts))

\* the remainder of the first token that starts with max-age=, as a
\* non-negative integer; 0 when the token is missing, or its remainder
\* empty or malformed
FirstDirectiveValue(text) ==
    LET n == Atoi(TrimPrefix(FirstMaxAgeToken(Split(text, ",")), MaxAgePrefix))
    IN  IF n.err \/ n.val < 0 THEN 0 ELSE n.val

\* C17: parseMaxAge returns the remainder of the first token that starts
\* with max-age=, parsed as a non-negative integer, and 0, never another
\* value, when the directive is missing, empty or malformed
C17_ParseMaxAge ==
    res.fn = "parseMaxAge" => res.val = FirstDirectiveValue(arg.cacheControl)

\* ------------------------------------------------------------- the items
\* the items of the documents the server of a feed URL serves, as the
\* parser delivers them
ServedItems(url) ==
    UNION {{dh[1].Items[i] : i \in 1..Len(dh[1].Items)} : dh \in Serves(url)}

\* the GUID an item supplied by the feed is stored under
SuppliedGuid(item) == IF item.GUID = "" THEN item.Link ELSE item.GUID

\* the content an item supplied by the feed comes with
SuppliedContent(item) ==
    IF item.Content = << >> THEN item.Description ELSE item.Content

\* C18: the content of every stored item is the output of the sanitizer
\* applied to the content the feed supplied: no element the policy does not
\* allow is stored, whichever path (batch or add-feed handler) stored it
C18_StoredContentSanitized ==
    \A p \in posts :
        /\ \A i \in 1..Len(p.content) : p.content[i] \in SafeElements
        /\ \E item \in ServedItems(feeds[p.feed_id].url) :
              /\ SuppliedGuid(item) = p.guid
              /\ p.content = Sanitize(SuppliedContent(item))

\* the item whose supplied content holds a script element is stored, with
\* the element removed
C18_Witness ==
    \E p \in posts :
        /\ p.guid = "guid-1" /\ p.content = <<"p">>
        /\ \E item \in ServedItems(feeds[p.feed_id].url) :
              SuppliedGuid(item) = p.guid /\ SuppliedContent(item) = <<"p", "script">>

\* C19: the content of an item passes through the sanitizer exactly once
\* between the parsed feed and the posts table: what the fetcher hands to
\* AddPost is the supplied content, not sanitized yet, and the row AddPost
\* inserts holds the sanitizer's output for it
C19_SanitizedExactlyOnce ==
    [][ (upc = "posts" /\ posts' # posts) =>
           LET handed == fetched.content.Items[fetched.item]
           IN  \A p \in posts' \ posts :
                  /\ p.guid = handed.GUID
                  /\ p.content = Sanitize(handed.Content)
                  /\ \E item \in ServedItems(batch[idx].URL) :
                        /\ SuppliedGuid(item) = handed.GUID
                        /\ SuppliedContent(item) = handed.Content ]_vars

\* AddPost has just stored the first item of the content: a script element
\* was in what the fetcher handed on and is not in the row
C19_Witness ==
    /\ fetched.kind = "content" /\ fetched.item = 2
    /\ fetched.content.Items[1].Content = <<"p", "script">>
    /\ \E p \in posts :
          /\ p.feed_id = batch[idx].ID
          /\ p.guid = fetched.content.Items[1].GUID
          /\ p.content = <<"p">>

\* C20: a posts row, once created, is not modified and not removed by any
\* later refresh: adding an item with its (feed, GUID) again, with whatever
\* title, link, time and content, changes no row and reports success; a row
\* disappears only in a step that deletes its feed
C20_ItemRowsAreFinal ==
    [][ \A p \in posts :
          /\ p \in posts' \/ p.feed_id \notin DOMAIN feeds'
          /\ \A c \in ServedContents(feeds[p.feed_id].url) :
                \A i \in 1..Len(c.Items) :
                   c.Items[i].GUID = p.guid =>
                      /\ ~AddPost(posts, feeds, p.feed_id, c.Items[i], TRUE).err
                      /\ AddPost(posts, feeds, p.feed_id, c.Items[i], TRUE).posts
                            = posts ]_vars

\* a batch has just ingested the later document, with the changed item and
\* the new one: the row of the changed item is as the first document had it
C20_Witness ==
    /\ last.net = "200" /\ last.clean /\ last.guids = {"guid-c", "guid-c2"}
    /\ \E p, q \in posts :
          /\ p.guid = "guid-c" /\ p.title = "old" /\ p.link = "https://x/c"
          /\ p.content = <<"p">> /\ p.published_at # 5
          /\ q.guid = "guid-c2" /\ q.feed_id = p.feed_id

\* ------------------------------------------------------------ the titles
\* C21: the title update of a batch's loop body overwrites the stored title
\* only with a parsed title that is not empty and differs from it: an empty
\* parsed title never replaces a stored title that is not empty
C21_TitleOverwrittenOnlyByNonEmpty ==
    [][ (upc = "title" /\ feeds'[batch[idx].ID].title # feeds[batch[idx].ID].title) =>
           /\ fetched.content.Title # ""
           /\ fetched.content.Title # feeds[batch[idx].ID].title
           /\ feeds'[batch[idx].ID].title = fetched.content.Title ]_vars

\* the users subscribed to a feed
SubscribersOf(ufs, feedId) == {uf.user_id : uf \in {x \in ufs : x.feed_id = feedId}}

\* C22: a feed row and its items are deleted only when no subscription
\* references the feed any more: while two users are subscribed to a feed,
\* no step (the delete handler's included) removes the feed row or any of its
\* items, and at most one of the two subscriptions goes.
C22_FeedDeletedOnlyUnreferenced ==
    [][ \A id \in DOMAIN feeds :
          Cardinality(SubscribersOf(user_feeds, id)) >= 2 =>
             /\ id \in DOMAIN feeds'
             /\ {p \in posts : p.feed_id = id} \subseteq posts'
             /\ SubscribersOf(user_feeds', id) # {} ]_vars

\* the validator token and the last-modified token stored for a feed URL
\* ("" when none is stored, or when there is no row for the URL)
StoredETag(url) ==
    IF \E id \in DOMAIN feeds : feeds[id].url = url
    THEN feeds[CHOOSE id \in DOMAIN feeds : feeds[id].url = url].etag ELSE ""
StoredLastModified(url) ==
    IF \E id \in DOMAIN feeds : feeds[id].url = url
    THEN feeds[CHOOSE id \in DOMAIN feeds : feeds[id].url = url].last_modified ELSE ""

\* C23: the GET for a feed carries If-None-Match exactly when a non-empty
\* validator token is stored for the feed, with that token as its value, and
\* If-Modified-Since exactly when a non-empty last-modified token is stored,
\* with that token; each header goes by its own token, so both are attached
\* when both are stored
C23_ConditionalHeaders ==
    [][ /\ (upc = "fetch" /\ upc' = "await") =>
              /\ req'.IfNoneMatch = StoredETag(req'.url)
              /\ req'.IfModifiedSince = StoredLastModified(req'.url)
        /\ (hpc = "none" /\ hpc' = "await") =>
              /\ hreq'.IfNoneMatch = StoredETag(hreq'.url)
              /\ hreq'.IfModifiedSince = StoredLastModified(hreq'.url) ]_vars

\* a GET in flight that carries If-Modified-Since without If-None-Match, for
\* a feed that has a last-modified token and no validator token
C23_Witness ==
    /\ upc = "await"
    /\ req.IfNoneMatch = "" /\ req.IfModifiedSince # ""
    /\ StoredETag(req.url) = "" /\ StoredLastModified(req.url) = req.IfModifiedSince

\* GETs in flight with the validator token alone, and with both tokens
C23_ETagOnlySent == upc = "await" /\ req.IfNoneMatch # "" /\ req.IfModifiedSince = ""
C23_BothSent == upc = "await" /\ req.IfNoneMatch # "" /\ req.IfModifiedSince # ""

\* C24: an item whose feed-supplied GUID is empty is stored under the
\* identity (feed, link), an item with a non-empty GUID under (feed, GUID):
\* every stored row is the row of an item its feed served, with the link as
\* guid when the item came without a GUID and the GUID otherwise
C24_GuidFallback ==
    \A p \in posts :
        \E item \in ServedItems(feeds[p.feed_id].url) :
            /\ p.title = item.Title /\ p.link = item.Link
            /\ item.GUID = "" => p.guid = item.Link
            /\ item.GUID # "" => p.guid = item.GUID

\* the item served with an empty GUID and the link https://x/y is stored
\* under that link, next to the item stored under its own GUID
C24_Witness ==
    \E p, q \in posts :
        /\ p.feed_id = q.feed_id
        /\ p.title = "two" /\ p.guid = "https://x/y" /\ p.link = "https://x/y"
        /\ q.title = "one" /\ q.guid = "guid-1" /\ q.link = "https://x/1"

\* the feeds rows of a URL, and the user_feeds rows of a (user, feed)
RowsOfUrl(fs, url) == {id \in DOMAIN fs : fs[id].url = url}
Subscriptions(ufs, userId, feedId) ==
    {uf \in ufs : uf.user_id = userId /\ uf.feed_id = feedId}

\* C25: AddFeedForUser handles duplicates and shares feeds across users: in
\* every state there is at most one feeds row per URL and at most one
\* subscription per (user, feed), and a call for any (user, URL) returns no
\* error and the id of the one feeds row the URL then has, which is the row
\* the URL had before if it had one; a call of any user for the URL after it
\* returns the same id; a call for a (user, URL) that is subscribed already
\* changes nothing
C25_AddFeedForUserDuplicates ==
    /\ \A url \in StoreUrls : Cardinality(RowsOfUrl(feeds, url)) <= 1
    /\ \A uf \in user_feeds :
          Subscriptions(user_feeds, uf.user_id, uf.feed_id) = {uf}
    /\ \A userId \in StoreUsers, url \in StoreUrls :
          LET a == AddFeedForUser(feeds, user_feeds, userId, url, TRUE)
          IN  /\ ~a.err
              /\ RowsOfUrl(a.feeds, url) = {a.feedId}
              /\ RowsOfUrl(feeds, url) \subseteq {a.feedId}
              /\ \A id \in DOMAIN feeds : id \in DOMAIN a.feeds /\ a.feeds[id] = feeds[id]
              /\ Cardinality(Subscriptions(a.user_feeds, userId, a.feedId)) = 1
              /\ \A other \in StoreUsers :
                    LET b == AddFeedForUser(a.feeds, a.user_feeds, other, url, TRUE)
                    IN  ~b.err /\ b.feedId = a.feedId /\ b.feeds = a.feeds
              /\ Subscriptions(user_feeds, userId, a.feedId) # {} =>
                    a.feeds = feeds /\ a.user_feeds = user_feeds

\* two users are subscribed to one feed, which has one row, next to the row
\* of another URL
C25_Witness ==
    \E id \in DOMAIN feeds :
        /\ SubscribersOf(user_feeds, id) = StoreUsers
        /\ RowsOfUrl(feeds, feeds[id].url) = {id}
        /\ Cardinality(DOMAIN feeds) >= 2

\* the grid positions of a user's feeds
PositionsOf(ufs, userId) == {uf.grid_position : uf \in FeedsOfUser(ufs, userId)}

\* C26: a feed newly subscribed by a user gets the grid position that is one
\* more than the greatest position of the user's feeds (0 when the user has
\* none), and no other row changes; removing a feed re-indexes nothing: the
\* rows of the other feeds stay as they are, position included
C26_GridPlacement ==
    /\ \A userId \in StoreUsers, url \in StoreUrls :
          LET a == AddFeedForUser(feeds, user_feeds, userId, url, TRUE)
              new == Subscriptions(a.user_feeds, userId, a.feedId)
          IN  Subscriptions(user_feeds, userId, a.feedId) = {} =>
                 /\ a.user_feeds = user_feeds \cup new
                 /\ \A n \in new :
                       /\ \A p \in PositionsOf(user_feeds, userId) : p < n.grid_position
                       /\ \/ n.grid_position - 1 \in PositionsOf(user_feeds, userId)
                          \/ n.grid_position = 0 /\ FeedsOfUser(user_feeds, userId) = {}
    /\ \A feedId \in DOMAIN feeds :
          LET d == DeleteFeed(feeds, posts, user_feeds, feedId, TRUE)
          IN  d.user_feeds = {uf \in user_feeds : uf.feed_id # feedId}

\* a user whose feeds are at the positions 1 and 2: the feed at 0 was removed,
\* the feed at 1 kept its position, and the feed subscribed after that was
\* placed at 2
C26_Witness ==
    \E userId \in StoreUsers :
        /\ PositionsOf(user_feeds, userId) = {1, 2}
        /\ Cardinality(FeedsOfUser(user_feeds, userId)) = 2

\* the user_feeds table after the rows f and n of a user exchanged positions
Exchanged(ufs, f, n) ==
    (ufs \ {f, n}) \cup {[f EXCEPT !.grid_position = n.grid_position],
                         [n EXCEPT !.grid_position = f.grid_position]}

\* what a move of feed i of a user is to do when the feeds to move past are
\* those of beyond(f), the nearest of them being the one no other lies
\* before: exchange the two positions and nothing else, or fail and change
\* nothing when i is not subscribed or there is no such feed
MovesPast(m, userId, i, Beyond(_, _)) ==
    LET cur == Subscriptions(user_feeds, userId, i)
    IN  IF cur = {} \/ \A f \in cur : \A n \in FeedsOfUser(user_feeds, userId) : ~Beyond(f, n)
        THEN m.err /\ m.user_feeds = user_feeds
        ELSE /\ ~m.err
             /\ \E f \in cur, n \in FeedsOfUser(user_feeds, userId) :
                   /\ Beyond(f, n)
                   /\ \A w \in FeedsOfUser(user_feeds, userId) :
                         Beyond(f, w) => ~Beyond(w, n)
                   /\ m.user_feeds = Exchanged(user_feeds, f, n)

IsBelow(f, n) == n.grid_position > f.grid_position
IsAbove(f, n) == n.grid_position < f.grid_position

\* C27: MoveFeedDown(user, f) exchanges the grid positions of f and the feed
\* immediately after it in the user's order, MoveFeedUp(user, f) those of f
\* and the feed immediately before it, and every other row stays as it is;
\* when f has no such neighbour or is not subscribed by the user the call
\* returns an error and changes nothing (the positions of a user's feeds are
\* distinct, so the neighbour is one feed)
C27_MoveFeedSwapsNeighbours ==
    /\ \A f, n \in user_feeds :
          f.user_id = n.user_id /\ f.grid_position = n.grid_position => f = n
    /\ \A userId \in StoreUsers, i \in 1..MaxStoreFeedId :
          /\ MovesPast(MoveFeedDown(user_feeds, userId, i, TRUE), userId, i, IsBelow)
          /\ MovesPast(MoveFeedUp(user_feeds, userId, i, TRUE), userId, i, IsAbove)

\* user 1 subscribed to the feeds 1 and 2, in that order and alone, and has
\* feed 2 before feed 1 now
C27_Witness ==
    user_feeds = {[user_id |-> 1, feed_id |-> 1, grid_position |-> 1],
                  [user_id |-> 1, feed_id |-> 2, grid_position |-> 0]}

\* what GetUserPostsPerFeed returns for a user on a table, the database working
PostsPerFeedRead(prefs, userId) == GetUserPostsPerFeed(prefs, userId, TRUE)

\* the step is a call of SetUserPostsPerFeed that returned no error
PostsPerFeedSet ==
    res' # res /\ res'.fn = "SetUserPostsPerFeed" /\ ~res'.err

\* C28: GetUserPostsPerFeed returns 10 for a user with no stored preference
\* and otherwise the value most recently set by SetUserPostsPerFeed for that
\* user: a user without a row reads 10, a successful SetUserPostsPerFeed(u, n)
\* makes u read n, and no other step (a set for another user, a failed set,
\* SetUserColumns, a read) changes what any user reads
C28_PostsPerFeedPreference ==
    [][ /\ \A u \in StoreUsers \ DOMAIN user_preferences :
              PostsPerFeedRead(user_preferences, u) = [err |-> FALSE, val |-> 10]
        /\ \A u \in StoreUsers :
              IF PostsPerFeedSet /\ res'.user = u
              THEN PostsPerFeedRead(user_preferences', u) = [err |-> FALSE, val |-> res'.key]
              ELSE PostsPerFeedRead(user_preferences', u) =
                       PostsPerFeedRead(user_preferences, u)
        /\ (res' # res /\ res'.fn = "GetUserPostsPerFeed" /\ ~res'.err) =>
              res'.val = PostsPerFeedRead(user_preferences, res'.user).val ]_vars

\* user 1 set 20 and reads 20, while user 2, who has set the columns only,
\* reads 10
C28_Witness ==
    /\ res.fn = "GetUserPostsPerFeed" /\ res.user = 1 /\ ~res.err /\ res.val = 20
    /\ 2 \in DOMAIN user_preferences
    /\ PostsPerFeedRead(user_preferences, 2).val = 10

\* C29: every call of Stop() eventually returns, after cancel() as well and
\* whichever of the done and ctx.Done cases the goroutine takes: a Stop()
\* that returns needs the goroutine to receive from done, so no state has a
\* Stop() sending on done while the goroutine has returned
C29_StopReturns == ~(stopCall = "sending" /\ exited)

\* the batch is past the AddPost calls for the feed it is at, and an item
\* of the fetched document has no row: persisting it failed
ItemNotPersisted ==
    /\ upc = "stamp"
    /\ \E g \in Guids(fetched.content) :
          ~\E p \in posts : p.feed_id = batch[idx].ID /\ p.guid = g

\* C30: when a feed's fetch returned 200 and persisting at least one of its
\* items failed with a storage error, the feed's stored cache-valid-until is
\* not advanced by that cycle: it is not later than it was when the fetch of
\* the feed began
C30_CacheNotAdvancedOnItemFailure ==
    ItemNotPersisted =>
        feeds[batch[idx].ID].cache_until <= fetched.before.CacheUntil

\* C31: subscribing through the add-feed handler succeeds whenever the fetch
\* reports no error: for a URL that is stored with a cache that is still
\* valid, or whose server answers 304, the handler subscribes the user and
\* completes normally; no add-feed request ends in the use of nil content
C31_HandlerNeverUsesNilContent == hlast # "panic"

\* the cache metadata extracted from the headers of a response received at t
ExtractedMeta(headers, t) ==
    <<headers.ETag, headers.LastModified, extractCacheInfo(headers, t).cacheUntil>>

\* C32: on a 200 outcome the three cache-metadata fields of the feed's row
\* are overwritten with the values extracted from that response, whatever
\* was stored: for every stored feed and every 200 response its server can
\* give, FetchFeed (its store calls succeeding) leaves the row with the
\* response's validator token, last-modified token and cache-valid-until, a
\* token whose header is absent becoming empty, and the next request for the
\* feed carries exactly the validators of that response; and every FetchFeed
\* of a batch that returned content, its store calls succeeding, left the
\* row with the metadata of a response that has this content
C32_CacheMetadataOverwritten ==
    [][ /\ \A id \in DOMAIN feeds :
              feeds[id].title # NULL =>
                 \A resp \in Responses(feeds[id].url) :
                    NetClass(resp) = "200" =>
                       LET after == storeCacheInfo(feeds, feeds[id].url,
                                                   fetchResult(resp, now), TRUE, TRUE)
                           next == BuildRequest(feeds[id].url,
                                                GetFeedByURL(after, feeds[id].url, TRUE))
                       IN  /\ CacheMeta(after[id]) = ExtractedMeta(resp.headers, now)
                           /\ next.IfNoneMatch = resp.headers.ETag
                           /\ next.IfModifiedSince = resp.headers.LastModified
        /\ (upc = "await" /\ upc' = "title" /\ fetched'.clean) =>
              \E resp \in Responses(req.url) :
                 /\ NetClass(resp) = "200"
                 /\ NormalizeFeed(resp.doc, now) = fetched'.content
                 /\ CacheMeta(feeds'[batch[idx].ID]) = ExtractedMeta(resp.headers, now) ]_vars

\* FetchFeed has just returned content for a feed that had a validator token
\* and a last-modified token when its fetch began, and has none now: the
\* response came without the two headers
C32_Witness ==
    /\ upc = "title" /\ fetched.clean
    /\ fetched.before.ETag # "" /\ fetched.before.LastModified # ""
    /\ CacheMeta(feeds[batch[idx].ID]) = <<"", "", now + 3600>>

\* C33: every batch that starts eventually completes and returns the
\* scheduler to Idle, whether its feeds succeeded or failed, provided each
\* fetch and each storage call returns
C33_BatchCompletes == (upc # "idle") ~> (upc = "idle")

\* a batch has just completed although the fetch of its last feed failed
C33_Witness ==
    /\ upc = "idle" /\ ret = "nil"
    /\ last.result = "error" /\ last.net \in {"transport", "status"}

\* C34: a feed whose refresh failed keeps its items and is refreshed by a
\* later cycle: with ticks arriving and the server answering 200, the items
\* are eventually stored. A later cycle can refresh a stored feed only if
\* the batch of a tick reaches it: in every state the feed list loads when
\* the database works, and every stored feed is in it
C34_LaterCycleReachesFeed ==
    LET r == GetAllFeeds(feeds, TRUE)
    IN  /\ ~r.err
        /\ \A id \in DOMAIN feeds : \E i \in 1..Len(r.feeds) : r.feeds[i].ID = id

\* C35: at most one batch is in progress at any time, and within a batch the
\* feeds are processed one at a time: a batch starts only when none runs; a
\* tick that fires while a batch runs waits in the ticker's channel and
\* changes nothing of the batch; a running batch keeps its feed list and
\* goes from a feed to the next one only; and the GET in flight, if any, is
\* the one for the feed the loop is at
C35_OneBatchOneFeedAtATime ==
    [][ /\ BatchStarts => (upc = "idle" /\ batch = << >> /\ req = NoRequest)
        /\ (upc # "idle" /\ ticker = "armed" /\ ticker' = "pending") =>
              UNCHANGED <<upc, batch, idx, req>>
        /\ (upc # "idle" /\ upc' # "idle") =>
              (batch' = batch /\ idx' \in {idx, idx + 1})
        /\ upc' = "await" => req'.url = batch'[idx'].URL
        /\ upc' # "await" => req' = NoRequest ]_vars

\* a tick waits in the channel of the ticker while a batch is at its second
\* feed
C35_Witness == upc # "idle" /\ idx = 2 /\ ticker = "pending"

\* C36: a failure to load the feed list aborts only the current batch: the
\* step in which GetAllFeeds fails processes no feed and changes no stored
\* state, and leaves the scheduler Idle with its ticker running and its
\* goroutine alive; in the state after it the ticker can fire, and a tick
\* that waits while the scheduler is Idle can start a batch
C36_ListFailureAbortsOneBatch ==
    [][ /\ listErr' =>
              /\ ret' = "err" /\ upc' = "idle" /\ batch' = << >> /\ req' = NoRequest
              /\ last' = NoOutcome
              /\ UNCHANGED <<feeds, posts, user_feeds>>
              /\ ticker' = "armed" /\ ~exited'
        /\ listErr => ENABLED TickerFires
        /\ (upc = "idle" /\ ~exited /\ ticker = "pending") => ENABLED SelectTick ]_vars

\* the batch of a tick has just been aborted by the failure of GetAllFeeds,
\* after an earlier batch had stamped a feed; the scheduler is Idle and its
\* ticker runs
C36_Witness ==
    /\ listErr /\ ret = "err" /\ upc = "idle"
    /\ ticker = "armed" /\ ~exited /\ ~Stopped
    /\ \E id \in DOMAIN feeds : feeds[id].last_fetched_at # 0

\* C37: for every valid non-negative max-age value N of a 200 response
\* without a valid Expires header, the computed cache-valid-until is not
\* earlier than the fetch time: the Duration of N seconds does not wrap
\* around
C37_CacheUntilNotBeforeFetch ==
    res.fn = "maxAgeCacheUntil" => ~res.info.beforeNow

\* C38: after any sequence of AddFeedForUser, MoveFeedUp, MoveFeedDown and
\* DeleteFeed the grid positions of one user's feeds are pairwise distinct:
\* a user has as many positions as feeds, so the order by grid_position is
\* total
C38_GridPositionsDistinct ==
    \A userId \in StoreUsers :
        Cardinality(PositionsOf(user_feeds, userId)) =
            Cardinality({uf.feed_id : uf \in FeedsOfUser(user_feeds, userId)})

\* user 1 has three feeds at three positions, in an order that is not the
\* one of the feed ids, and user 2 has feeds too
C38_Witness ==
    /\ {[user_id |-> 1, feed_id |-> 1, grid_position |-> 2],
        [user_id |-> 1, feed_id |-> 2, grid_position |-> 0],
        [user_id |-> 1, feed_id |-> 3, grid_position |-> 1]} \subseteq user_feeds
    /\ FeedsOfUser(user_feeds, 2) # {}

\* ------------------------------------------------------- the seen flags
\* the user_post_states row of a user for a post
SeenRows(ups, userId, postId) ==
    {s \in ups : s.user_id = userId /\ s.post_id = postId}

\* C39: a seen flag that is set stays set through every refresh that ingests
\* the post's item again: every user_post_states row has seen = 1 and
\* references a post that exists, and in every step that does not delete the
\* post's feed the row and the post it references are there afterwards as
\* they were
C39_SeenFlagSurvivesIngestion ==
    [][ \A s \in user_post_states :
          /\ s.seen = 1
          /\ \E p \in posts :
                /\ p.id = s.post_id
                /\ p.feed_id \in DOMAIN feeds' => (s \in user_post_states' /\ p \in posts') ]_vars

\* a batch has just ingested the later document, whose first item has the
\* GUID of a stored post the user has marked as seen
C39_Witness ==
    /\ last.net = "200" /\ last.clean /\ last.guids = {"guid-c", "guid-c2"}
    /\ \E p \in posts, u \in Users :
          /\ p.guid = "guid-c" /\ p.title = "old"
          /\ SeenRows(user_post_states, u, p.id)
                 = {[user_id |-> u, post_id |-> p.id, seen |-> 1]}

====
